---- MODULE Spec2Model ----
(***************************************************************************)
(* A model of the ZMK Studio client library: the byte framing codec        *)
(* (src/src/framing.rs), the envelope protocol (src/src/protocol.rs) and   *)
(* the RPC client engine (src/src/client.rs).                              *)
(*                                                                         *)
(* The module holds several specifications over one set of variables:      *)
(*   SpecFraming  the frame codec driven by a peer that puts encoded       *)
(*                frames and stray bytes on the wire;                      *)
(*   SpecCodec    one payload encoded and decoded in any chunking;         *)
(*   Spec         the RPC client engine on top of the codec;               *)
(*   SpecIds      calls on a client whose request counter is about to wrap;*)
(*   SpecMeta     calls answered with meta results;                        *)
(*   SpecKeymap   get_key_at, set_key_at, save_changes and discard_changes *)
(*                over the behavior catalog (src/src/binding.rs,           *)
(*                src/src/keycode.rs);                                     *)
(*   SpecNames    role_from_display_name on pairs of display names;        *)
(*   SpecBle      the BLE transport bridge (src/src/transport/ble.rs): the *)
(*                worker thread, its three channels and the caller;        *)
(*   SpecEngine   calls on one client observed call by call, over a stream *)
(*                that is damaged until a call fails with a framing error; *)
(*   SpecTyped    the typed calls call_core, call_behaviors, call_keymap;  *)
(*   SpecMutations  the results of the keymap mutations;                   *)
(*   SpecHid      HidUsage::from_encoded and to_hid_usage                  *)
(*                (src/src/hid_usage.rs);                                  *)
(*   SpecLate     calls on a device that answers after the read timeout;   *)
(*   SpecBleLive, SpecBleDrop  SpecBle with the progress of connect and of *)
(*                the worker thread.                                       *)
(* Each specification keeps the variables of the others at their initial   *)
(* value.                                                                  *)
(***************************************************************************)
EXTENDS Integers, Sequences, FiniteSets, TLC

VARIABLES
    \* ---- frame codec (SpecFraming) ----
    decoder,      \* FrameDecoder { state, data }
    wire,         \* bytes the peer has written and push has not yet been given
    wireTotal,    \* number of bytes the peer has written so far
    sentFrames,   \* payloads whose encodings the peer has written, in order
    rawKinds,     \* the values of the stray (unframed) bytes the peer has written
    rawCount,     \* the number of stray bytes the peer has written
    delivered,    \* frames returned by the push calls so far, concatenated
    lastPush,     \* the last push call: its chunk, its result, the decoder before
    prevErr,      \* the error of the push call before the last one, or "none"
    payload,      \* the argument of the last encode_frame call
    encoded,      \* the result of the last encode_frame call
    \* ---- RPC client engine (Spec); decoder and wire are the client's
    \* FrameDecoder and the bytes its transport has yet to return from read ----
    next_request_id,  \* StudioClient.next_request_id
    callsMade,        \* the number of calls made on the client so far (not reduced
                      \* modulo 2^32), as <<multiples of 2^16, remainder>>
    responses,        \* StudioClient.responses
    notifications,    \* StudioClient.notifications
    written,          \* the request ids of the Request frames written to io
    pc,               \* the operation in progress: "idle", "call" or "rnb"
    request_id,       \* the local request_id of the call in progress (or the last)
    lastResult,       \* what the last blocking operation returned, NoResult while it runs
    lastSeen,         \* the last response read_next_response gave call, NothingRead if none
    notifLog,         \* the notifications read_next_response has given call, in order
    handed,           \* the notifications the caller has been handed, in order
    rnbLast,          \* the last response read_next_response gave
                      \* read_notification_blocking since it was entered, NothingRead if none
    ops,              \* the number of blocking operations started
    sent,             \* the number of frames and stray bytes the device has sent
    \* ---- typed behavior catalog and keymap access (SpecKeymap) ----
    behavior_role_by_id,  \* StudioClient.behavior_role_by_id
    behavior_id_by_role,  \* StudioClient.behavior_id_by_role
    fwBehaviors,      \* the device's behavior catalog: ids and display names, in order
    fwKeymap,         \* the device's working keymap: layers of bindings
    fwSaved,          \* the keymap the device has persisted
    rpcLog,           \* the requests sent by the last keymap operation, in order
    buildsCompleted,  \* how often ensure_behavior_catalog has fetched the whole catalog
    kmResult,         \* the last keymap operation: its arguments and its result
    prevResult,       \* the keymap operation before the last one
    kmOps,            \* the number of keymap operations made
    \* ---- display name classification (SpecNames) ----
    names,            \* two display names
    roles,            \* the results of role_from_display_name for them, once computed
    \* ---- BLE transport (SpecBle) ----
    worker,           \* the worker thread: "idle", "setup", "running" (in its loop),
                      \* "closing" (after the loop) or "done" (returned)
    setup,            \* the results on the setup channel, not yet received
    setupSent,        \* all results the worker has sent on the setup channel
    connectResult,    \* what connect_with_options returned: "pending", "Ok" or the error
    held,             \* whether the caller's ends of the channels (write_tx, read_rx) exist
    inbound,          \* the packets on the inbound channel (read_tx -> read_rx)
    outbound,         \* the buffers on the outbound channel (write_tx -> write_rx)
    read_queue,       \* BleTransport.read_queue
    putBytes,         \* the bytes of the packets the worker has put on the inbound channel
    gotBytes,         \* the bytes the reads have returned, concatenated
    transmitted,      \* the number of buffers the worker has transmitted
    events,           \* the number of notifications the device has sent
    lastBle,          \* the caller's last read or write and its result
    timeouts,         \* the number of reads that timed out
    bleOps,           \* the number of reads and writes of the caller
    disconnected,     \* whether the worker has called peripheral.disconnect()
    \* ---- the client engine observed call by call (SpecEngine) ----
    lastRnr,          \* the last read_next_response: whether it read, what io.read
                      \* gave, and what it returned
    thisCall,         \* the call in progress (or the last): whether a call before it
                      \* failed with a framing error, and whether the transport held
                      \* no unread bytes when it began
    framingFailed,    \* whether a call has failed with a framing error
    reply,            \* what the device has answered the call in progress with:
                      \* "none", "match" (its well-formed response) or "other"
    \* ---- the typed calls (SpecTyped, SpecMutations) ----
    wanted,           \* the subsystem of the typed call: "core", "behaviors", "keymap"
    typedResult,      \* what call_core, call_behaviors or call_keymap returned
    mutation,         \* a keymap mutation and the keymap Response the device gave it
    mutResult,        \* what the mutation returned for it, once computed

    \* ---- hid_usage.rs (SpecHid) ----
    usageIn,          \* an encoded usage, 32 bits as two 16-bit halves
    usageOut,         \* HidUsage::from_encoded of it, encoded again; <<>> before

    \* ---- calls on a device that answers late (SpecLate) ----
    timedOut,         \* a call has failed with a read timeout
    answered,         \* how many of the requests written the device has answered
    startedLate       \* the call in progress or just returned began after a timeout

framingVars == <<decoder, wire, wireTotal, sentFrames, rawKinds, rawCount, delivered,
                 lastPush, prevErr, payload, encoded>>

\* the codec's bookkeeping, which the client engine does not touch
framingHist == <<wireTotal, sentFrames, rawKinds, rawCount, delivered, lastPush,
                 prevErr, payload, encoded>>

clientVars == <<next_request_id, callsMade, responses, notifications, written, pc, request_id,
                lastResult, lastSeen, notifLog, handed, rnbLast, ops, sent>>

keymapVars == <<behavior_role_by_id, behavior_id_by_role, fwBehaviors, fwKeymap, fwSaved,
                rpcLog, buildsCompleted, kmResult, prevResult, kmOps>>

namesVars == <<names, roles>>

bleVars == <<worker, setup, setupSent, connectResult, held, inbound, outbound, read_queue,
             putBytes, gotBytes, transmitted, events, lastBle, timeouts, bleOps,
             disconnected>>

engineVars == <<lastRnr, thisCall, framingFailed, reply>>

typedVars == <<wanted, typedResult, mutation, mutResult>>

hidVars == <<usageIn, usageOut>>

lateVars == <<timedOut, answered, startedLate>>

vars == <<framingVars, clientVars, keymapVars, namesVars, bleVars, engineVars, typedVars,
         hidVars, lateVars>>

----------------------------------------------------------------------------
(* Bounds of the model *)

\* the peer writes at most this many bytes in a run of SpecFraming
MaxWire == 6

\* of which at most this many are stray bytes
MaxRaw == 2

\* the longest payload of SpecCodec
MaxPayload == 3

\* the device sends at most this many frames and stray bytes in a run of Spec
MaxSent == 3

\* the caller starts at most this many blocking operations (call,
\* read_notification_blocking) in a run of Spec
MaxOps == 2

\* keymap operations per run of SpecKeymap
MaxKeymapOps == 2

\* the calls of an operation that may fail: none (0) or one of the first MaxFailAt
MaxFailAt == 3

\* notifications of the device per run of SpecBle
MaxEvents == 3

\* reads and writes of the caller per run of SpecBle
MaxBleOps == 3

----------------------------------------------------------------------------
(* framing.rs *)

FRAMING_SOF == 171
FRAMING_ESC == 172
FRAMING_EOF == 173

\* the byte values the model draws from: one ordinary byte and the three
\* reserved ones
Byte == {1, FRAMING_SOF, FRAMING_ESC, FRAMING_EOF}

\* matches!(b, FRAMING_SOF | FRAMING_ESC | FRAMING_EOF)
IsReserved(b) == b \in {FRAMING_SOF, FRAMING_ESC, FRAMING_EOF}

\* the body of encode_frame's loop, over the whole payload
RECURSIVE StuffBytes(_)
StuffBytes(p) ==
    IF p = <<>> THEN <<>>
    ELSE (IF IsReserved(Head(p)) THEN <<FRAMING_ESC, Head(p)>> ELSE <<Head(p)>>)
         \o StuffBytes(Tail(p))

\* an encoder that escapes the start and escape bytes only
RECURSIVE StuffBytes_EndNotEscaped(_)
StuffBytes_EndNotEscaped(p) ==
    IF p = <<>> THEN <<>>
    ELSE (IF Head(p) \in {FRAMING_SOF, FRAMING_ESC}
          THEN <<FRAMING_ESC, Head(p)>> ELSE <<Head(p)>>)
         \o StuffBytes_EndNotEscaped(Tail(p))

encode_frame_EndNotEscaped(p) ==
    <<FRAMING_SOF>> \o StuffBytes_EndNotEscaped(p) \o <<FRAMING_EOF>>

encode_frame(p) == <<FRAMING_SOF>> \o StuffBytes(p) \o <<FRAMING_EOF>>

\* FrameDecoder::new
NewDecoder == [state |-> "Idle", data |-> <<>>]

PushOk(frames) == [ok |-> TRUE, frames |-> frames, err |-> "none"]
PushErr(e) == [ok |-> FALSE, frames |-> <<>>, err |-> e]

\* what one byte does to the decoder: the next state, the buffer, the frame it
\* completes (a sequence of zero or one frame) and the error it raises
Step(st, d, fr, e) == [state |-> st, data |-> d, frames |-> fr, err |-> e]

\* the match arm DecodeState::Idle
OnIdle(d, b) ==
    IF b = FRAMING_SOF
    THEN Step("AwaitingData", d, <<>>, "none")
    ELSE Step("Idle", <<>>, <<>>, "ExpectedStartOfFrame")

\* a decoder that keeps the partial frame when a start byte arrives mid-frame
OnAwaitingData_KeepsData(d, b) ==
    IF b = FRAMING_SOF
    THEN Step("AwaitingData", d, <<>>, "UnexpectedStartOfFrameMidFrame")
    ELSE IF b = FRAMING_ESC
    THEN Step("Escaped", d, <<>>, "none")
    ELSE IF b = FRAMING_EOF
    THEN Step("Idle", <<>>, <<d>>, "none")
    ELSE Step("AwaitingData", Append(d, b), <<>>, "none")

\* the match arm DecodeState::AwaitingData
OnAwaitingData(d, b) ==
    IF b = FRAMING_SOF
    THEN Step("Idle", <<>>, <<>>, "UnexpectedStartOfFrameMidFrame")
    ELSE IF b = FRAMING_ESC
    THEN Step("Escaped", d, <<>>, "none")
    ELSE IF b = FRAMING_EOF
    THEN Step("Idle", <<>>, <<d>>, "none")
    ELSE Step("AwaitingData", Append(d, b), <<>>, "none")

\* a decoder in which an escaped end byte still ends the frame
OnEscaped_EndByteEnds(d, b) ==
    IF b = FRAMING_EOF
    THEN Step("Idle", <<>>, <<d>>, "none")
    ELSE Step("AwaitingData", Append(d, b), <<>>, "none")

\* the match arm DecodeState::Escaped
OnEscaped(d, b) == Step("AwaitingData", Append(d, b), <<>>, "none")

\* match self.state
PushByte(st, d, b) ==
    CASE st = "Idle" -> OnIdle(d, b)
      [] st = "AwaitingData" -> OnAwaitingData(d, b)
      [] st = "Escaped" -> OnEscaped(d, b)

\* FrameDecoder::push: the loop over the chunk, from decoder state st with buffer
\* d and the frames completed so far in this call. An error returns at once: the
\* frames of this call and the rest of the chunk are dropped.
RECURSIVE PushLoop(_, _, _, _)
PushLoop(st, d, frames, chunk) ==
    IF chunk = <<>>
    THEN [decoder |-> [state |-> st, data |-> d], result |-> PushOk(frames)]
    ELSE LET s == PushByte(st, d, Head(chunk))
         IN IF s.err # "none"
            THEN [decoder |-> [state |-> s.state, data |-> s.data],
                  result |-> PushErr(s.err)]
            ELSE PushLoop(s.state, s.data, frames \o s.frames, Tail(chunk))

\* a push that starts every call from a fresh decoder
push_ForgetsState(dec, chunk) == PushLoop("Idle", <<>>, <<>>, chunk)

push(dec, chunk) == PushLoop(dec.state, dec.data, <<>>, chunk)

----------------------------------------------------------------------------
(* The peer of the codec: what SpecFraming and SpecCodec drive it with *)

RECURSIVE SeqsUpTo(_, _)
SeqsUpTo(S, n) ==
    IF n = 0 THEN {<<>>}
    ELSE LET shorter == SeqsUpTo(S, n - 1)
         IN shorter \cup {Append(s, x) : s \in {t \in shorter : Len(t) = n - 1}, x \in S}

\* the payloads the peer frames
Payloads == SeqsUpTo(Byte, MaxWire - 2)

NoPush == [chunk |-> <<>>, result |-> PushOk(<<>>), before |-> NewDecoder, calls |-> 0]

FramingStart ==
    /\ decoder = NewDecoder
    /\ wire = <<>>
    /\ wireTotal = 0
    /\ sentFrames = <<>>
    /\ rawKinds = {}
    /\ rawCount = 0
    /\ delivered = <<>>
    /\ lastPush = NoPush
    /\ prevErr = "none"
    /\ payload = <<>>
    /\ encoded = <<>>

\* the peer encodes payload p and writes the frame
WriteFrame(p) ==
    /\ payload' = p
    /\ encoded' = encode_frame(p)
    /\ wire' = wire \o encode_frame(p)
    /\ wireTotal' = wireTotal + Len(encode_frame(p))
    /\ sentFrames' = Append(sentFrames, p)
    /\ UNCHANGED <<decoder, rawKinds, rawCount, delivered, lastPush, prevErr>>
    /\ UNCHANGED <<clientVars, keymapVars, namesVars, hidVars, bleVars, engineVars, lateVars, typedVars>>

\* a stray byte reaches the wire (line noise, a peer out of step)
SendRaw(b) ==
    /\ wireTotal + 1 <= MaxWire
    /\ rawCount < MaxRaw
    /\ rawCount' = rawCount + 1
    /\ wire' = Append(wire, b)
    /\ wireTotal' = wireTotal + 1
    /\ rawKinds' = rawKinds \cup {b}
    /\ UNCHANGED <<decoder, sentFrames, delivered, lastPush, prevErr, payload, encoded>>
    /\ UNCHANGED <<clientVars, keymapVars, namesVars, hidVars, bleVars, engineVars, lateVars, typedVars>>

\* the reader hands the next n bytes of the wire to push as one chunk
PushChunk(n) ==
    LET chunk == SubSeq(wire, 1, n)
        r == push(decoder, chunk)
    IN /\ decoder' = r.decoder
       /\ wire' = SubSeq(wire, n + 1, Len(wire))
       /\ delivered' = delivered \o r.result.frames
       /\ lastPush' = [chunk |-> chunk, result |-> r.result, before |-> decoder,
                       calls |-> IF lastPush.calls < 2 THEN lastPush.calls + 1 ELSE 2]
       /\ prevErr' = lastPush.result.err
       /\ UNCHANGED <<wireTotal, sentFrames, rawKinds, rawCount, payload, encoded>>
       /\ UNCHANGED <<clientVars, keymapVars, namesVars, hidVars, bleVars, engineVars, lateVars, typedVars>>

SendFrame(p) ==
    /\ Len(p) + 2 <= MaxWire - wireTotal
    /\ wireTotal + Len(encode_frame(p)) <= MaxWire
    /\ WriteFrame(p)

----------------------------------------------------------------------------
(* The Response envelope (proto/zmk/studio.proto) and protocol.rs *)

Resp(t, id, sub, n) == [type |-> t, request_id |-> id, subsystem |-> sub, n |-> n]

\* Response { type: Some(Notification(n)) }
Notification(n) == Resp("Notification", <<0, 0>>, "none", n)

\* Response { type: Some(RequestResponse { request_id, subsystem }) }
RequestResponse(id, sub) == Resp("RequestResponse", id, sub, 0)

\* a RequestResponse whose subsystem is a meta result SimpleError(raw)
SimpleError(id, raw) == Resp("RequestResponse", id, "meta_simple_error", raw)

\* Response { type: None }
NoType == Resp("None", <<0, 0>>, "none", 0)

\* what RequestResponse.subsystem can hold: a result of one of the three
\* subsystems, the shapes of a meta result that call tells apart (NoResponse(true),
\* NoResponse(false), SimpleError(raw) with raw in the field n, and a meta
\* result without a response_type), or nothing
Subsystems ==
    <<"core", "behaviors", "keymap", "meta_no_response", "meta_simple_error",
      "meta_no_response_false", "meta_empty", "none">>

\* zmk::meta::ErrorConditions: GENERIC, UNLOCK_REQUIRED, RPC_NOT_FOUND,
\* MSG_DECODE_FAILED, MSG_ENCODE_FAILED
ErrorConditions == 0..4

SubsystemCode(sub) == CHOOSE i \in 1..Len(Subsystems) : Subsystems[i] = sub

\* Message::encode_to_vec for Response: a tag byte and the fields; a Response
\* without a type is the empty message
SerializeResponse(r) ==
    CASE r.type = "Notification" -> <<2, r.n>>
      [] r.type = "RequestResponse" ->
            <<1, r.request_id[1], r.request_id[2], SubsystemCode(r.subsystem)>>
            \o (IF r.subsystem = "meta_simple_error" THEN <<r.n>> ELSE <<>>)
      [] OTHER -> <<>>

\* Response::decode: the inverse, and an error for bytes that are no Response
DeserializeResponse(bytes) ==
    IF bytes = <<>> THEN [ok |-> TRUE, response |-> NoType]
    ELSE IF Len(bytes) = 2 /\ bytes[1] = 2
    THEN [ok |-> TRUE, response |-> Notification(bytes[2])]
    ELSE IF Len(bytes) = 4 /\ bytes[1] = 1 /\ bytes[4] \in 1..Len(Subsystems)
            /\ Subsystems[bytes[4]] # "meta_simple_error"
    THEN [ok |-> TRUE,
          response |-> RequestResponse(<<bytes[2], bytes[3]>>, Subsystems[bytes[4]])]
    ELSE IF Len(bytes) = 5 /\ bytes[1] = 1 /\ bytes[4] \in 1..Len(Subsystems)
            /\ Subsystems[bytes[4]] = "meta_simple_error"
    THEN [ok |-> TRUE, response |-> SimpleError(<<bytes[2], bytes[3]>>, bytes[5])]
    ELSE [ok |-> FALSE, response |-> NoType]

encode_response(r) == encode_frame(SerializeResponse(r))

\* decode_responses that leaves the decoder as it was when push fails
decode_responses_KeepsDecoder(dec, chunk) ==
    LET r == push(dec, chunk)
        frames == r.result.frames
        ds == [i \in 1..Len(frames) |-> DeserializeResponse(frames[i])]
    IN IF ~r.result.ok
       THEN [decoder |-> dec, ok |-> FALSE,
             err |-> "Protocol(Framing)", responses |-> <<>>]
       ELSE IF \E i \in 1..Len(frames) : ~ds[i].ok
       THEN [decoder |-> r.decoder, ok |-> FALSE,
             err |-> "Protocol(Decode)", responses |-> <<>>]
       ELSE [decoder |-> r.decoder, ok |-> TRUE, err |-> "none",
             responses |-> [i \in 1..Len(frames) |-> ds[i].response]]

\* decode_responses: push, then decode every frame; the first error is the
\* result and the decoder has advanced in any case
decode_responses(dec, chunk) ==
    LET r == push(dec, chunk)
        frames == r.result.frames
        ds == [i \in 1..Len(frames) |-> DeserializeResponse(frames[i])]
    IN IF ~r.result.ok
       THEN [decoder |-> r.decoder, ok |-> FALSE,
             err |-> "Protocol(Framing)", responses |-> <<>>]
       ELSE IF \E i \in 1..Len(frames) : ~ds[i].ok
       THEN [decoder |-> r.decoder, ok |-> FALSE,
             err |-> "Protocol(Decode)", responses |-> <<>>]
       ELSE [decoder |-> r.decoder, ok |-> TRUE, err |-> "none",
             responses |-> [i \in 1..Len(frames) |-> ds[i].response]]

----------------------------------------------------------------------------
(* client.rs: StudioClient *)

\* StudioClient::new: with_read_buffer(io, 256)
READ_BUFFER_SIZE == 256

\* A u32 is held as its two 16-bit halves <<high, low>>, most significant
\* first: the value is high * 2^16 + low.
U16 == 65536

U32FromNat(n) == <<n \div U16, n % U16>>

\* an increment that stops at u32::MAX instead of wrapping
wrapping_add_1_Saturates(x) ==
    IF x = <<U16 - 1, U16 - 1>> THEN x
    ELSE IF x[2] + 1 < U16 THEN <<x[1], x[2] + 1>> ELSE <<x[1] + 1, 0>>

\* u32::wrapping_add(1)
wrapping_add_1(x) ==
    IF x[2] + 1 < U16 THEN <<x[1], x[2] + 1>> ELSE <<(x[1] + 1) % U16, 0>>

Ok(op, v) ==
    [op |-> op, ok |-> TRUE, err |-> "none", value |-> v,
     expected |-> <<0, 0>>, actual |-> <<0, 0>>, field |-> "", code |-> 0]

Err(op, e) ==
    [op |-> op, ok |-> FALSE, err |-> e, value |-> NoType,
     expected |-> <<0, 0>>, actual |-> <<0, 0>>, field |-> "", code |-> 0]

\* ClientError::UnexpectedRequestId { expected, actual }
UnexpectedRequestId(exp, act) ==
    [op |-> "call", ok |-> FALSE, err |-> "UnexpectedRequestId", value |-> NoType,
     expected |-> exp, actual |-> act, field |-> "", code |-> 0]

\* ClientError::Meta(cond)
Meta(cond) ==
    [op |-> "call", ok |-> FALSE, err |-> "Meta", value |-> NoType,
     expected |-> <<0, 0>>, actual |-> <<0, 0>>, field |-> "", code |-> cond]

\* ClientError::UnknownEnumValue { field, value }
UnknownEnumValue(field, value) ==
    [op |-> "call", ok |-> FALSE, err |-> "UnknownEnumValue", value |-> NoType,
     expected |-> <<0, 0>>, actual |-> <<0, 0>>, field |-> field, code |-> value]

NoResult == Ok("none", NoType)

\* no response read yet
NothingRead == Resp("nothing", <<0, 0>>, "none", 0)

\* the outcomes of self.io.read(&mut self.read_buffer) when the transport holds
\* the bytes of wire: a single byte or all of them (at most a buffer full), so
\* that over a run the chunk boundaries fall at every byte or only where the
\* device paused; zero bytes or a timeout when it holds none
NoRead == [kind |-> "unused", chunk |-> <<>>, err |-> "none"]

ReadSizes ==
    {n \in {1, Len(wire), READ_BUFFER_SIZE} : n <= Len(wire) /\ n <= READ_BUFFER_SIZE}

ReadOutcomes ==
    {[kind |-> "data", chunk |-> SubSeq(wire, 1, n), err |-> "none"] : n \in ReadSizes}
    \cup (IF wire = <<>>
          THEN {[kind |-> "data", chunk |-> <<>>, err |-> "none"],
                [kind |-> "err", chunk |-> <<>>, err |-> "Io(TimedOut)"]}
          ELSE {})

\* a read happens only when the queue of decoded responses is empty
Reads == IF responses # <<>> THEN {NoRead} ELSE ReadOutcomes

\* what read_next_response returns and leaves behind; read says whether it
\* called io.read
RnrOk(resp, q, dec) ==
    [status |-> "ok", response |-> resp, responses |-> q, decoder |-> dec, err |-> "none",
     read |-> TRUE]
RnrQueued(resp, q, dec) ==
    [status |-> "ok", response |-> resp, responses |-> q, decoder |-> dec, err |-> "none",
     read |-> FALSE]
RnrErr(q, dec, e) ==
    [status |-> "err", response |-> NoType, responses |-> q, decoder |-> dec, err |-> e,
     read |-> TRUE]
RnrAgain(q, dec) ==
    [status |-> "again", response |-> NoType, responses |-> q, decoder |-> dec, err |-> "none",
     read |-> TRUE]

\* read_next_response that reads again after a read that failed
read_next_response_RetriesRead(resps, dec, rd) ==
    IF resps # <<>> THEN RnrQueued(Head(resps), Tail(resps), dec)
    ELSE IF rd.kind = "err" THEN RnrAgain(resps, dec)
    ELSE IF Len(rd.chunk) = 0 THEN RnrErr(resps, dec, "Io(UnexpectedEof)")
    ELSE LET d == decode_responses(dec, rd.chunk)
             q == resps \o d.responses
         IN IF ~d.ok THEN RnrErr(resps, d.decoder, d.err)
            ELSE IF q # <<>> THEN RnrOk(Head(q), Tail(q), d.decoder)
            ELSE RnrAgain(q, d.decoder)

\* read_next_response that queues the responses of the chunk that did decode
\* when another frame of the chunk did not
read_next_response_KeepsDecoded(resps, dec, rd) ==
    IF resps # <<>> THEN RnrQueued(Head(resps), Tail(resps), dec)
    ELSE IF rd.kind = "err" THEN RnrErr(resps, dec, rd.err)
    ELSE IF Len(rd.chunk) = 0 THEN RnrErr(resps, dec, "Io(UnexpectedEof)")
    ELSE LET d == decode_responses(dec, rd.chunk)
             q == resps \o d.responses
             frames == push(dec, rd.chunk).result.frames
             ds == [i \in 1..Len(frames) |-> DeserializeResponse(frames[i])]
             good == SelectSeq(ds, LAMBDA x : x.ok)
             kept == [i \in 1..Len(good) |-> good[i].response]
         IN IF ~d.ok THEN RnrErr(resps \o kept, d.decoder, d.err)
            ELSE IF q # <<>> THEN RnrOk(Head(q), Tail(q), d.decoder)
            ELSE RnrAgain(q, d.decoder)

\* read_next_response that reads before it looks at the queue
read_next_response_ReadsFirst(resps, dec, rd) ==
    IF rd.kind = "err" THEN RnrErr(resps, dec, rd.err)
    ELSE IF Len(rd.chunk) = 0 THEN RnrErr(resps, dec, "Io(UnexpectedEof)")
    ELSE LET d == decode_responses(dec, rd.chunk)
             q == resps \o d.responses
         IN IF ~d.ok THEN RnrErr(resps, d.decoder, d.err)
            ELSE IF q # <<>> THEN RnrOk(Head(q), Tail(q), d.decoder)
            ELSE RnrAgain(q, d.decoder)

\* read_next_response up to its return or to the next turn of its loop
\* ("again": the chunk completed no frame), with rd the outcome of io.read
read_next_response(resps, dec, rd) ==
    IF resps # <<>> THEN RnrQueued(Head(resps), Tail(resps), dec)
    ELSE IF rd.kind = "err" THEN RnrErr(resps, dec, rd.err)
    ELSE IF Len(rd.chunk) = 0 THEN RnrErr(resps, dec, "Io(UnexpectedEof)")
    ELSE LET d == decode_responses(dec, rd.chunk)
             q == resps \o d.responses
         IN IF ~d.ok THEN RnrErr(resps, d.decoder, d.err)
            ELSE IF q # <<>> THEN RnrOk(Head(q), Tail(q), d.decoder)
            ELSE RnrAgain(q, d.decoder)

\* the bytes left in the transport after that read
AfterRead(rd) == SubSeq(wire, Len(rd.chunk) + 1, Len(wire))

\* the record of a read_next_response: io.read's outcome (kind "unused" if it
\* was not called), the bytes it gave and their number, and the return
Rnr(r, rd) ==
    [read |-> r.read,
     kind |-> IF r.read THEN rd.kind ELSE "unused",
     n |-> IF r.read THEN Len(rd.chunk) ELSE 0,
     chunk |-> IF r.read THEN rd.chunk ELSE <<>>,
     status |-> r.status, err |-> r.err, response |-> r.response]

NoRnr == [read |-> FALSE, kind |-> "unused", n |-> 0, chunk |-> <<>>, status |-> "none",
          err |-> "none",
          response |-> NoType]

\* no call on a device that answers late
LateIdle ==
    /\ timedOut = FALSE
    /\ answered = 0
    /\ startedLate = FALSE

\* no usage decoded
HidIdle ==
    /\ usageIn = <<0, 0>>
    /\ usageOut = <<>>

\* no typed call
TypedIdle ==
    /\ wanted = "none"
    /\ typedResult = NoResult
    /\ mutation = [op |-> "none"]
    /\ mutResult = NoResult

\* no call observed
EngineIdle ==
    /\ lastRnr = NoRnr
    /\ thisCall = [afterFailure |-> FALSE, clean |-> TRUE]
    /\ framingFailed = FALSE
    /\ reply = "none"

\* a match on meta.response_type that takes every SimpleError code for a known
\* one
MetaError_AnyCodeKnown(resp) ==
    CASE resp.subsystem = "meta_no_response" -> Err("call", "NoResponse")
      [] resp.subsystem = "meta_simple_error" -> Meta(resp.n)
      [] OTHER -> Err("call", "MissingResponseType")

\* the match on meta.response_type in call: the error call returns for a
\* RequestResponse that carries a meta result
MetaError(resp) ==
    CASE resp.subsystem = "meta_no_response" -> Err("call", "NoResponse")
      [] resp.subsystem = "meta_simple_error" ->
            IF resp.n \in ErrorConditions
            THEN Meta(resp.n)
            ELSE UnknownEnumValue("meta.simple_error", resp.n)
      [] OTHER -> Err("call", "MissingResponseType")

IsMeta(sub) ==
    sub \in {"meta_no_response", "meta_simple_error", "meta_no_response_false",
             "meta_empty"}

\* a call that puts a notification at the head of the queue
CallMatch_QueuesAtFront(resp, rid, notifs) ==
    CASE resp.type = "Notification" ->
            [done |-> FALSE, result |-> NoResult, notifications |-> <<resp>> \o notifs]
      [] resp.type = "RequestResponse" ->
            [done |-> TRUE,
             result |-> IF resp.request_id # rid
                        THEN UnexpectedRequestId(rid, resp.request_id)
                        ELSE IF IsMeta(resp.subsystem)
                        THEN MetaError(resp)
                        ELSE Ok("call", resp),
             notifications |-> notifs]
      [] OTHER ->
            [done |-> TRUE, result |-> Err("call", "MissingResponseType"),
             notifications |-> notifs]

\* a call that looks at the meta result before it compares the request ids
CallMatch_MetaFirst(resp, rid, notifs) ==
    CASE resp.type = "Notification" ->
            [done |-> FALSE, result |-> NoResult, notifications |-> Append(notifs, resp)]
      [] resp.type = "RequestResponse" ->
            [done |-> TRUE,
             result |-> IF IsMeta(resp.subsystem)
                        THEN MetaError(resp)
                        ELSE IF resp.request_id # rid
                        THEN UnexpectedRequestId(rid, resp.request_id)
                        ELSE Ok("call", resp),
             notifications |-> notifs]
      [] OTHER ->
            [done |-> TRUE, result |-> Err("call", "MissingResponseType"),
             notifications |-> notifs]

\* a call that does not compare the response's request id with its own
CallMatch_AnyId(resp, rid, notifs) ==
    CASE resp.type = "Notification" ->
            [done |-> FALSE, result |-> NoResult, notifications |-> Append(notifs, resp)]
      [] resp.type = "RequestResponse" ->
            [done |-> TRUE,
             result |-> IF IsMeta(resp.subsystem)
                        THEN MetaError(resp)
                        ELSE Ok("call", resp),
             notifications |-> notifs]
      [] OTHER ->
            [done |-> TRUE, result |-> Err("call", "MissingResponseType"),
             notifications |-> notifs]

\* a call that loses the notifications it has queued when it fails on a
\* mismatched request id
CallMatch_MismatchClears(resp, rid, notifs) ==
    CASE resp.type = "Notification" ->
            [done |-> FALSE, result |-> NoResult, notifications |-> Append(notifs, resp)]
      [] resp.type = "RequestResponse" ->
            [done |-> TRUE,
             result |-> IF resp.request_id # rid
                        THEN UnexpectedRequestId(rid, resp.request_id)
                        ELSE IF IsMeta(resp.subsystem)
                        THEN MetaError(resp)
                        ELSE Ok("call", resp),
             notifications |-> IF resp.request_id # rid THEN <<>> ELSE notifs]
      [] OTHER ->
            [done |-> TRUE, result |-> Err("call", "MissingResponseType"),
             notifications |-> notifs]

\* the match on response.type in call's loop: whether call returns, with what,
\* and the notification queue afterwards
CallMatch(resp, rid, notifs) ==
    CASE resp.type = "Notification" ->
            [done |-> FALSE, result |-> NoResult, notifications |-> Append(notifs, resp)]
      [] resp.type = "RequestResponse" ->
            [done |-> TRUE,
             result |-> IF resp.request_id # rid
                        THEN UnexpectedRequestId(rid, resp.request_id)
                        ELSE IF IsMeta(resp.subsystem)
                        THEN MetaError(resp)
                        ELSE Ok("call", resp),
             notifications |-> notifs]
      [] OTHER ->
            [done |-> TRUE, result |-> Err("call", "MissingResponseType"),
             notifications |-> notifs]

\* the successor of a call count (no reduction modulo 2^32), and the call
\* count reduced modulo 2^32 as a u32
CountSucc(n) == IF n[2] + 1 < U16 THEN <<n[1], n[2] + 1>> ELSE <<n[1] + 1, 0>>
CountPred(n) == IF n[2] > 0 THEN <<n[1], n[2] - 1>> ELSE <<n[1] - 1, U16 - 1>>
CountAsU32(n) == <<n[1] % U16, n[2]>>

\* a client on which n calls have been made, none in progress and nothing
\* queued (with_read_buffer builds the client of n = 0)
ClientAfter(n) ==
    /\ next_request_id = CountAsU32(n)
    /\ callsMade = n
    /\ responses = <<>>
    /\ notifications = <<>>
    /\ written = <<>>
    /\ pc = "idle"
    /\ request_id = <<0, 0>>
    /\ lastResult = NoResult
    /\ lastSeen = NothingRead
    /\ notifLog = <<>>
    /\ handed = <<>>
    /\ rnbLast = NothingRead
    /\ ops = 0
    /\ sent = 0

ClientInit ==
    /\ next_request_id = <<0, 0>>
    /\ callsMade = <<0, 0>>
    /\ responses = <<>>
    /\ notifications = <<>>
    /\ written = <<>>
    /\ pc = "idle"
    /\ request_id = <<0, 0>>
    /\ lastResult = NoResult
    /\ lastSeen = NothingRead
    /\ notifLog = <<>>
    /\ handed = <<>>
    /\ rnbLast = NothingRead
    /\ ops = 0
    /\ sent = 0

\* call, to the end of write_all: the id is taken, the counter advanced and the
\* Request frame written; a failed write returns the error. (CallWrite leaves
\* the observation of SpecEngine open, CallStart keeps it as it is.)
CallWrite(writeOk) ==
    /\ pc = "idle"
    /\ ops < MaxOps
    /\ ops' = ops + 1
    /\ request_id' = next_request_id
    /\ next_request_id' = wrapping_add_1(next_request_id)
    /\ callsMade' = CountSucc(callsMade)
    /\ lastSeen' = NothingRead
    /\ rnbLast' = NothingRead
    /\ IF writeOk
       THEN /\ written' = Append(written, next_request_id)
            /\ pc' = "call"
            /\ lastResult' = NoResult
       ELSE /\ lastResult' = Err("call", "Io(WriteFailed)")
            /\ UNCHANGED <<written, pc>>
    /\ UNCHANGED <<responses, notifications, notifLog, handed, sent, decoder, wire>>
    /\ UNCHANGED <<framingHist, keymapVars, namesVars, hidVars, bleVars>>

CallStart(writeOk) == CallWrite(writeOk) /\ UNCHANGED <<engineVars, lateVars, typedVars>>

\* one turn of call's loop: read_next_response, then the match
CallTurn(rd) ==
    /\ pc = "call"
    /\ LET r == read_next_response(responses, decoder, rd)
           m == CallMatch(r.response, request_id, notifications)
       IN /\ responses' = r.responses
          /\ decoder' = r.decoder
          /\ wire' = IF r.read THEN AfterRead(rd) ELSE wire
          /\ CASE r.status = "err" ->
                    /\ pc' = "idle"
                    /\ lastResult' = Err("call", r.err)
                    /\ UNCHANGED <<notifications, lastSeen, notifLog>>
               [] r.status = "again" ->
                    UNCHANGED <<pc, lastResult, notifications, lastSeen, notifLog>>
               [] OTHER ->
                    /\ lastSeen' = r.response
                    /\ notifLog' = IF r.response.type = "Notification"
                                   THEN Append(notifLog, r.response) ELSE notifLog
                    /\ notifications' = m.notifications
                    /\ pc' = IF m.done THEN "idle" ELSE "call"
                    /\ lastResult' = IF m.done THEN m.result ELSE lastResult
    /\ UNCHANGED <<next_request_id, callsMade, written, request_id, handed, rnbLast, ops, sent>>
    /\ UNCHANGED <<framingHist, keymapVars, namesVars, hidVars, bleVars>>

CallStep(rd) == CallTurn(rd) /\ UNCHANGED <<engineVars, lateVars, typedVars>>

\* next_notification
NextNotification ==
    /\ pc = "idle"
    /\ IF notifications # <<>>
       THEN /\ notifications' = Tail(notifications)
            /\ handed' = Append(handed, Head(notifications))
       ELSE UNCHANGED <<notifications, handed>>
    /\ UNCHANGED <<next_request_id, callsMade, responses, written, pc, request_id, lastResult,
                   lastSeen, notifLog, rnbLast, ops, sent, decoder, wire>>
    /\ UNCHANGED <<framingHist, keymapVars, namesVars, hidVars, bleVars, engineVars, lateVars, typedVars>>

\* read_notification_blocking is entered
RnbStart ==
    /\ pc = "idle"
    /\ ops < MaxOps
    /\ ops' = ops + 1
    /\ pc' = "rnb"
    /\ rnbLast' = NothingRead
    /\ lastResult' = NoResult
    /\ UNCHANGED <<next_request_id, callsMade, responses, notifications, written, request_id,
                   lastSeen, notifLog, handed, sent, decoder, wire>>
    /\ UNCHANGED <<framingHist, keymapVars, namesVars, hidVars, bleVars, engineVars, lateVars, typedVars>>

\* one turn of read_notification_blocking's loop: a queued notification is
\* returned; otherwise `let _ = self.read_next_response()?`
RnbStep(rd) ==
    /\ pc = "rnb"
    /\ IF notifications # <<>>
       THEN /\ lastResult' = Ok("read_notification_blocking", Head(notifications))
            /\ notifications' = Tail(notifications)
            /\ handed' = Append(handed, Head(notifications))
            /\ pc' = "idle"
            /\ UNCHANGED <<responses, decoder, wire, rnbLast>>
       ELSE LET r == read_next_response(responses, decoder, rd)
            IN /\ responses' = r.responses
               /\ decoder' = r.decoder
               /\ wire' = IF r.read THEN AfterRead(rd) ELSE wire
               /\ pc' = IF r.status = "err" THEN "idle" ELSE "rnb"
               /\ lastResult' = IF r.status = "err"
                                THEN Err("read_notification_blocking", r.err)
                                ELSE lastResult
               /\ rnbLast' = IF r.status = "ok" THEN r.response ELSE rnbLast
               /\ UNCHANGED <<notifications, handed>>
    /\ UNCHANGED <<next_request_id, callsMade, written, request_id, lastSeen, notifLog,
                   ops, sent>>
    /\ UNCHANGED <<framingHist, keymapVars, namesVars, hidVars, bleVars, engineVars, lateVars, typedVars>>

\* the subsystem results the device of Spec answers with
DeviceSubsystems == {"keymap", "meta_no_response"}

\* what the device sends: a notification (numbered, to tell one from another),
\* a response without a type, and request responses that carry the id of the
\* latest request or the one after it
DeviceResponses ==
    {Notification(sent + 1), NoType}
    \cup {RequestResponse(i, sub) :
            i \in {request_id, wrapping_add_1(request_id)}, sub \in DeviceSubsystems}

\* the device sends the frame of a Response
DeviceSend(r) ==
    /\ sent < MaxSent
    /\ sent' = sent + 1
    /\ wire' = wire \o encode_response(r)
    /\ UNCHANGED <<next_request_id, callsMade, responses, notifications, written, pc, request_id,
                   lastResult, lastSeen, notifLog, handed, rnbLast, ops, decoder>>
    /\ UNCHANGED <<framingHist, keymapVars, namesVars, hidVars, bleVars, engineVars, lateVars, typedVars>>

\* the device sends bytes that are no frame of a Response: a frame whose
\* payload does not decode, or a stray byte
DeviceSendBytes(bytes) ==
    /\ sent < MaxSent
    /\ sent' = sent + 1
    /\ wire' = wire \o bytes
    /\ UNCHANGED <<next_request_id, callsMade, responses, notifications, written, pc, request_id,
                   lastResult, lastSeen, notifLog, handed, rnbLast, ops, decoder>>
    /\ UNCHANGED <<framingHist, keymapVars, namesVars, hidVars, bleVars, engineVars, lateVars, typedVars>>

----------------------------------------------------------------------------
(* transport/ble.rs: BleTransport, the bridge between the blocking caller  *)
(* and the worker thread                                                  *)

\* the packets a device notifies are numbered bytes: the k-th byte the worker
\* puts on the inbound channel is k
Packet(from, len) == [i \in 1..len |-> from + i]

RECURSIVE Flatten(_)
Flatten(packets) ==
    IF packets = <<>> THEN <<>> ELSE Head(packets) \o Flatten(Tail(packets))

Min(a, b) == IF a < b THEN a ELSE b

\* the thread spawned by connect_with_options up to the loop of
\* run_ble_worker: what it sends on the setup channel and where it goes on.
\* outcome names the step that fails ("Panic": the thread ends without a
\* result, as the `?` of the Uuid parsing would), or "Ok"
worker_setup(outcome) ==
    CASE outcome = "Ok" -> [sends |-> <<"Ok">>, worker |-> "running"]
      [] outcome = "Panic" -> [sends |-> <<>>, worker |-> "done"]
      [] OTHER -> [sends |-> <<outcome>>, worker |-> "done"]

\* the match on setup_rx.recv() in connect_with_options, once recv returns:
\* chan holds the results sent and not yet received; recv fails when it is
\* empty and the sender is gone
setup_recv_ReadyWhenClosed(chan) ==
    IF chan = <<>> THEN "Ok" ELSE Head(chan)

setup_recv(chan) ==
    IF chan = <<>> THEN "SetupChannelClosed" ELSE Head(chan)

\* what a read or a write of the transport returns and leaves behind
IoResult(res, bytes, queue, chan) ==
    [res |-> res, bytes |-> bytes, queue |-> queue, chan |-> chan]

\* read that forgets what did not fit the buffer
BleTransport_read_DropsRemainder(queue, chan, closed, n) ==
    IF n = 0 THEN IoResult("Ok", <<>>, queue, chan)
    ELSE IF queue = <<>> /\ chan = <<>>
    THEN IoResult(IF closed THEN "UnexpectedEof" ELSE "TimedOut", <<>>, queue, chan)
    ELSE LET q == IF queue = <<>> THEN Head(chan) ELSE queue
             c == IF queue = <<>> THEN Tail(chan) ELSE chan
             k == Min(n, Len(q))
         IN IoResult("Ok", SubSeq(q, 1, k), <<>>, c)

\* read that takes a packet from the channel whenever there is one
BleTransport_read_AlwaysReceives(queue, chan, closed, n) ==
    IF n = 0 THEN IoResult("Ok", <<>>, queue, chan)
    ELSE IF queue = <<>> /\ chan = <<>>
    THEN IoResult(IF closed THEN "UnexpectedEof" ELSE "TimedOut", <<>>, queue, chan)
    ELSE LET q == IF chan # <<>> THEN queue \o Head(chan) ELSE queue
             c == IF chan # <<>> THEN Tail(chan) ELSE chan
             k == Min(n, Len(q))
         IN IoResult("Ok", SubSeq(q, 1, k), SubSeq(q, k + 1, Len(q)), c)

\* Read::read for a buffer of n bytes: queue is read_queue, chan the packets
\* on the inbound channel, closed whether its sender is gone. recv_timeout
\* gives the first packet if there is one, Disconnected if there is none and
\* the sender is gone, and Timeout if none arrives within read_timeout
BleTransport_read(queue, chan, closed, n) ==
    IF n = 0 THEN IoResult("Ok", <<>>, queue, chan)
    ELSE IF queue = <<>> /\ chan = <<>>
    THEN IoResult(IF closed THEN "UnexpectedEof" ELSE "TimedOut", <<>>, queue, chan)
    ELSE LET q == IF queue = <<>> THEN Head(chan) ELSE queue
             c == IF queue = <<>> THEN Tail(chan) ELSE chan
             k == Min(n, Len(q))
         IN IoResult("Ok", SubSeq(q, 1, k), SubSeq(q, k + 1, Len(q)), c)

\* write that does not notice that the worker is gone
BleTransport_write_IgnoresClosed(chan, closed, buf) ==
    IoResult("Ok", buf, <<>>, Append(chan, buf))

\* Write::write: chan is the outbound channel, closed whether its receiver is
\* gone; bytes are the bytes accepted
BleTransport_write(chan, closed, buf) ==
    IF closed THEN IoResult("BrokenPipe", <<>>, <<>>, chan)
    ELSE IoResult("Ok", buf, <<>>, Append(chan, buf))

\* the last read or write of the caller
BleOp(op, n, r) == [op |-> op, n |-> n, res |-> r.res, bytes |-> r.bytes]
NoBleOp == [op |-> "none", n |-> 0, res |-> "Ok", bytes |-> <<>>]

\* no BLE transport
BleIdle ==
    /\ worker = "idle"
    /\ setup = <<>>
    /\ setupSent = <<>>
    /\ connectResult = "pending"
    /\ held = FALSE
    /\ inbound = <<>>
    /\ outbound = <<>>
    /\ read_queue = <<>>
    /\ putBytes = <<>>
    /\ gotBytes = <<>>
    /\ transmitted = 0
    /\ events = 0
    /\ lastBle = NoBleOp
    /\ timeouts = 0
    /\ bleOps = 0
    /\ disconnected = FALSE

\* connect_with_options has made the channels and spawned the thread, and
\* waits in setup_rx.recv()
BleStart ==
    /\ worker = "setup"
    /\ setup = <<>>
    /\ setupSent = <<>>
    /\ connectResult = "pending"
    /\ held = TRUE
    /\ inbound = <<>>
    /\ outbound = <<>>
    /\ read_queue = <<>>
    /\ putBytes = <<>>
    /\ gotBytes = <<>>
    /\ transmitted = 0
    /\ events = 0
    /\ lastBle = NoBleOp
    /\ timeouts = 0
    /\ bleOps = 0
    /\ disconnected = FALSE

BleOthers == <<framingVars, clientVars, keymapVars, namesVars, hidVars, engineVars, lateVars, typedVars>>

\* the steps at which the worker's setup fails, and its success
SetupOutcomes ==
    {"RuntimeInit", "Panic", "DeviceNotFound", "Subscribe", "Notifications", "Ok"}

\* the worker thread from its start to the loop
WorkerSetup(outcome) ==
    /\ worker = "setup"
    /\ LET w == worker_setup(outcome)
       IN /\ setup' = setup \o w.sends
          /\ setupSent' = setupSent \o w.sends
          /\ worker' = w.worker
    /\ UNCHANGED <<connectResult, held, inbound, outbound, read_queue, putBytes,
                   gotBytes, transmitted, events, lastBle, timeouts, bleOps>>
    /\ UNCHANGED disconnected
    /\ UNCHANGED BleOthers

\* setup_rx.recv() returns: a result has been sent, or the thread is gone.
\* A connect that fails drops its ends of the channels
ConnectRecv ==
    /\ connectResult = "pending"
    /\ setup # <<>> \/ worker = "done"
    /\ connectResult' = setup_recv(setup)
    /\ setup' = IF setup = <<>> THEN setup ELSE Tail(setup)
    /\ held' = (connectResult' = "Ok")
    /\ UNCHANGED <<worker, setupSent, inbound, outbound, read_queue, putBytes,
                   gotBytes, transmitted, events, lastBle, timeouts, bleOps>>
    /\ UNCHANGED disconnected
    /\ UNCHANGED BleOthers

\* the loop of run_ble_worker, notifications.next(): a notification of len
\* bytes, of the RPC characteristic or of another one
WorkerNotification(len, rpc) ==
    /\ worker = "running"
    /\ events < MaxEvents
    /\ events' = events + 1
    /\ IF ~rpc
       THEN UNCHANGED <<worker, inbound, putBytes>>
       ELSE IF held
       THEN /\ inbound' = Append(inbound, Packet(Len(putBytes), len))
            /\ putBytes' = putBytes \o Packet(Len(putBytes), len)
            /\ UNCHANGED worker
       ELSE /\ worker' = "closing"
            /\ UNCHANGED <<inbound, putBytes>>
    /\ UNCHANGED <<setup, setupSent, connectResult, held, outbound, read_queue,
                   gotBytes, transmitted, lastBle, timeouts, bleOps>>
    /\ UNCHANGED disconnected
    /\ UNCHANGED BleOthers

\* notifications.next() gives None: the device's event stream has ended
WorkerStreamEnd ==
    /\ worker = "running"
    /\ worker' = "closing"
    /\ UNCHANGED <<setup, setupSent, connectResult, held, inbound, outbound,
                   read_queue, putBytes, gotBytes, transmitted, events, lastBle,
                   timeouts, bleOps>>
    /\ UNCHANGED disconnected
    /\ UNCHANGED BleOthers

\* write_rx.recv() gives a buffer, and peripheral.write succeeds or fails; a
\* failure returns from the worker at once
WorkerTransmit(ok) ==
    /\ worker = "running"
    /\ outbound # <<>>
    /\ outbound' = Tail(outbound)
    /\ transmitted' = IF ok THEN transmitted + 1 ELSE transmitted
    /\ worker' = IF ok THEN "running" ELSE "done"
    /\ UNCHANGED <<setup, setupSent, connectResult, held, inbound, read_queue,
                   putBytes, gotBytes, events, lastBle, timeouts, bleOps>>
    /\ UNCHANGED disconnected
    /\ UNCHANGED BleOthers

\* write_rx.recv() gives None: the transport has been dropped and the
\* outbound channel is empty
WorkerOutboundClosed ==
    /\ worker = "running"
    /\ outbound = <<>>
    /\ ~held
    /\ worker' = "closing"
    /\ UNCHANGED <<setup, setupSent, connectResult, held, inbound, outbound,
                   read_queue, putBytes, gotBytes, transmitted, events, lastBle,
                   timeouts, bleOps>>
    /\ UNCHANGED disconnected
    /\ UNCHANGED BleOthers

\* after the loop: peripheral.disconnect() and the return, which drops the
\* worker's ends of the channels
WorkerExit ==
    /\ worker = "closing"
    /\ worker' = "done"
    /\ disconnected' = TRUE
    /\ UNCHANGED <<setup, setupSent, connectResult, held, inbound, outbound,
                   read_queue, putBytes, gotBytes, transmitted, events, lastBle,
                   timeouts, bleOps>>
    /\ UNCHANGED BleOthers

\* the caller reads into a buffer of n bytes
BleRead(n) ==
    /\ connectResult = "Ok"
    /\ held
    /\ bleOps < MaxBleOps
    /\ bleOps' = bleOps + 1
    /\ LET r == BleTransport_read(read_queue, inbound, worker = "done", n)
       IN /\ read_queue' = r.queue
          /\ inbound' = r.chan
          /\ gotBytes' = gotBytes \o r.bytes
          /\ lastBle' = BleOp("read", n, r)
          /\ timeouts' = IF r.res = "TimedOut" THEN timeouts + 1 ELSE timeouts
    /\ UNCHANGED <<worker, setup, setupSent, connectResult, held, outbound,
                   putBytes, transmitted, events>>
    /\ UNCHANGED disconnected
    /\ UNCHANGED BleOthers

\* the caller writes buf
BleWrite(buf) ==
    /\ connectResult = "Ok"
    /\ held
    /\ bleOps < MaxBleOps
    /\ bleOps' = bleOps + 1
    /\ LET r == BleTransport_write(outbound, worker = "done", buf)
       IN /\ outbound' = r.chan
          /\ lastBle' = BleOp("write", Len(buf), r)
    /\ UNCHANGED <<worker, setup, setupSent, connectResult, held, inbound,
                   read_queue, putBytes, gotBytes, transmitted, events, timeouts>>
    /\ UNCHANGED disconnected
    /\ UNCHANGED BleOthers

\* the caller drops the transport, and with it write_tx and read_rx
DropTransport ==
    /\ connectResult = "Ok"
    /\ held
    /\ held' = FALSE
    /\ UNCHANGED <<worker, setup, setupSent, connectResult, inbound, outbound,
                   read_queue, putBytes, gotBytes, transmitted, events, lastBle,
                   timeouts, bleOps>>
    /\ UNCHANGED disconnected
    /\ UNCHANGED BleOthers

----------------------------------------------------------------------------
(* binding.rs: BehaviorRole and role_from_display_name *)

\* A display name is held as the sequence of its characters.

\* enum BehaviorRole
BehaviorRoles ==
    {"KeyPress", "KeyToggle", "LayerTap", "ModTap", "StickyKey",
     "StickyLayer", "MomentaryLayer", "ToggleLayer", "ToLayer", "Bluetooth",
     "ExternalPower", "OutputSelection", "Backlight", "Underglow", "MouseKeyPress",
     "MouseMove", "MouseScroll", "CapsWord", "KeyRepeat", "Reset",
     "Bootloader", "SoftOff", "StudioUnlock", "GraveEscape", "Transparent",
     "None"}

\* Option::None of role_from_display_name
NoRole == "NoRole"

UpperCase ==
    <<"A", "B", "C", "D", "E", "F", "G", "H", "I", "J", "K", "L", "M",
      "N", "O", "P", "Q", "R", "S", "T", "U", "V", "W", "X", "Y", "Z">>
LowerCase ==
    <<"a", "b", "c", "d", "e", "f", "g", "h", "i", "j", "k", "l", "m",
      "n", "o", "p", "q", "r", "s", "t", "u", "v", "w", "x", "y", "z">>

\* the white space str::trim removes, as far as the names of the model hold any
WhiteSpace == {" ", "\t"}

\* u8::to_ascii_lowercase on a character
LowerChar(ch) ==
    IF \E i \in 1..Len(UpperCase) : UpperCase[i] = ch
    THEN LowerCase[CHOOSE i \in 1..Len(UpperCase) : UpperCase[i] = ch]
    ELSE ch

\* str::to_ascii_lowercase
to_ascii_lowercase(name) == [i \in 1..Len(name) |-> LowerChar(name[i])]

RECURSIVE trim_start(_)
trim_start(name) ==
    IF name # <<>> /\ Head(name) \in WhiteSpace THEN trim_start(Tail(name)) ELSE name

RECURSIVE trim_end(_)
trim_end(name) ==
    IF name # <<>> /\ name[Len(name)] \in WhiteSpace
    THEN trim_end(SubSeq(name, 1, Len(name) - 1))
    ELSE name

\* str::trim
trim(name) == trim_end(trim_start(name))

\* the arms of the match in role_from_display_name
KnownNames ==
    <<[name |-> <<"k", "e", "y", " ", "p", "r", "e", "s", "s">>,
       role |-> "KeyPress"],
      [name |-> <<"k", "e", "y", " ", "t", "o", "g", "g", "l", "e">>,
       role |-> "KeyToggle"],
      [name |-> <<"l", "a", "y", "e", "r", "-", "t", "a", "p">>,
       role |-> "LayerTap"],
      [name |-> <<"m", "o", "d", "-", "t", "a", "p">>,
       role |-> "ModTap"],
      [name |-> <<"s", "t", "i", "c", "k", "y", " ", "k", "e", "y">>,
       role |-> "StickyKey"],
      [name |-> <<"s", "t", "i", "c", "k", "y", " ", "l", "a", "y", "e", "r">>,
       role |-> "StickyLayer"],
      [name |-> <<"m", "o", "m", "e", "n", "t", "a", "r", "y", " ", "l", "a", "y", "e", "r">>,
       role |-> "MomentaryLayer"],
      [name |-> <<"t", "o", "g", "g", "l", "e", " ", "l", "a", "y", "e", "r">>,
       role |-> "ToggleLayer"],
      [name |-> <<"t", "o", " ", "l", "a", "y", "e", "r">>,
       role |-> "ToLayer"],
      [name |-> <<"b", "l", "u", "e", "t", "o", "o", "t", "h">>,
       role |-> "Bluetooth"],
      [name |-> <<"e", "x", "t", "e", "r", "n", "a", "l", " ", "p", "o", "w", "e", "r">>,
       role |-> "ExternalPower"],
      [name |-> <<"o", "u", "t", "p", "u", "t", " ", "s", "e", "l", "e", "c", "t", "i", "o", "n">>,
       role |-> "OutputSelection"],
      [name |-> <<"b", "a", "c", "k", "l", "i", "g", "h", "t">>,
       role |-> "Backlight"],
      [name |-> <<"u", "n", "d", "e", "r", "g", "l", "o", "w">>,
       role |-> "Underglow"],
      [name |-> <<"m", "o", "u", "s", "e", " ", "k", "e", "y", " ", "p", "r", "e", "s", "s">>,
       role |-> "MouseKeyPress"],
      [name |-> <<"m", "o", "u", "s", "e", " ", "m", "o", "v", "e">>,
       role |-> "MouseMove"],
      [name |-> <<"m", "o", "u", "s", "e", " ", "s", "c", "r", "o", "l", "l">>,
       role |-> "MouseScroll"],
      [name |-> <<"c", "a", "p", "s", " ", "w", "o", "r", "d">>,
       role |-> "CapsWord"],
      [name |-> <<"k", "e", "y", " ", "r", "e", "p", "e", "a", "t">>,
       role |-> "KeyRepeat"],
      [name |-> <<"r", "e", "s", "e", "t">>,
       role |-> "Reset"],
      [name |-> <<"b", "o", "o", "t", "l", "o", "a", "d", "e", "r">>,
       role |-> "Bootloader"],
      [name |-> <<"s", "o", "f", "t", " ", "o", "f", "f">>,
       role |-> "SoftOff"],
      [name |-> <<"s", "t", "u", "d", "i", "o", " ", "u", "n", "l", "o", "c", "k">>,
       role |-> "StudioUnlock"],
      [name |-> <<"g", "r", "a", "v", "e", " ", "e", "s", "c", "a", "p", "e">>,
       role |-> "GraveEscape"],
      [name |-> <<"t", "r", "a", "n", "s", "p", "a", "r", "e", "n", "t">>,
       role |-> "Transparent"],
      [name |-> <<"n", "o", "n", "e">>,
       role |-> "None"]>>

\* role_from_display_name: trim, lower the case, look the name up
role_from_display_name(name) ==
    LET n == to_ascii_lowercase(trim(name))
    IN IF \E i \in 1..Len(KnownNames) : KnownNames[i].name = n
       THEN KnownNames[CHOOSE i \in 1..Len(KnownNames) : KnownNames[i].name = n].role
       ELSE NoRole

\* the display names set_key_at names the roles by (the second argument of its
\* behavior_id_for calls)
RoleDisplayNames ==
    <<[role |-> "KeyPress",
       name |-> <<"K", "e", "y", " ", "P", "r", "e", "s", "s">>],
      [role |-> "KeyToggle",
       name |-> <<"K", "e", "y", " ", "T", "o", "g", "g", "l", "e">>],
      [role |-> "LayerTap",
       name |-> <<"L", "a", "y", "e", "r", "-", "T", "a", "p">>],
      [role |-> "ModTap",
       name |-> <<"M", "o", "d", "-", "T", "a", "p">>],
      [role |-> "StickyKey",
       name |-> <<"S", "t", "i", "c", "k", "y", " ", "K", "e", "y">>],
      [role |-> "StickyLayer",
       name |-> <<"S", "t", "i", "c", "k", "y", " ", "L", "a", "y", "e", "r">>],
      [role |-> "MomentaryLayer",
       name |-> <<"M", "o", "m", "e", "n", "t", "a", "r", "y", " ", "L", "a", "y", "e", "r">>],
      [role |-> "ToggleLayer",
       name |-> <<"T", "o", "g", "g", "l", "e", " ", "L", "a", "y", "e", "r">>],
      [role |-> "ToLayer",
       name |-> <<"T", "o", " ", "L", "a", "y", "e", "r">>],
      [role |-> "Bluetooth",
       name |-> <<"B", "l", "u", "e", "t", "o", "o", "t", "h">>],
      [role |-> "ExternalPower",
       name |-> <<"E", "x", "t", "e", "r", "n", "a", "l", " ", "P", "o", "w", "e", "r">>],
      [role |-> "OutputSelection",
       name |-> <<"O", "u", "t", "p", "u", "t", " ", "S", "e", "l", "e", "c", "t", "i", "o", "n">>],
      [role |-> "Backlight",
       name |-> <<"B", "a", "c", "k", "l", "i", "g", "h", "t">>],
      [role |-> "Underglow",
       name |-> <<"U", "n", "d", "e", "r", "g", "l", "o", "w">>],
      [role |-> "MouseKeyPress",
       name |-> <<"M", "o", "u", "s", "e", " ", "K", "e", "y", " ", "P", "r", "e", "s", "s">>],
      [role |-> "MouseMove",
       name |-> <<"M", "o", "u", "s", "e", " ", "M", "o", "v", "e">>],
      [role |-> "MouseScroll",
       name |-> <<"M", "o", "u", "s", "e", " ", "S", "c", "r", "o", "l", "l">>],
      [role |-> "CapsWord",
       name |-> <<"C", "a", "p", "s", " ", "W", "o", "r", "d">>],
      [role |-> "KeyRepeat",
       name |-> <<"K", "e", "y", " ", "R", "e", "p", "e", "a", "t">>],
      [role |-> "Reset",
       name |-> <<"R", "e", "s", "e", "t">>],
      [role |-> "Bootloader",
       name |-> <<"B", "o", "o", "t", "l", "o", "a", "d", "e", "r">>],
      [role |-> "SoftOff",
       name |-> <<"S", "o", "f", "t", " ", "O", "f", "f">>],
      [role |-> "StudioUnlock",
       name |-> <<"S", "t", "u", "d", "i", "o", " ", "U", "n", "l", "o", "c", "k">>],
      [role |-> "GraveEscape",
       name |-> <<"G", "r", "a", "v", "e", "/", "E", "s", "c", "a", "p", "e">>],
      [role |-> "Transparent",
       name |-> <<"T", "r", "a", "n", "s", "p", "a", "r", "e", "n", "t">>],
      [role |-> "None",
       name |-> <<"N", "o", "n", "e">>]>>

DisplayNameOf(role) ==
    RoleDisplayNames[CHOOSE i \in 1..Len(RoleDisplayNames) : RoleDisplayNames[i].role = role].name

\* the pairs of display names SpecNames classifies
DisplayNames ==
    {<<"L", "a", "y", "e", "r", "-", "T", "a", "p">>,
     <<"l", "a", "y", "e", "r", " ", "t", "a", "p">>,
     <<"G", "r", "a", "v", "e", "/", "E", "s", "c", "a", "p", "e">>,
     <<"g", "r", "a", "v", "e", " ", "e", "s", "c", "a", "p", "e">>,
     <<"K", "e", "y", " ", " ", "P", "r", "e", "s", "s">>,
     <<"k", "e", "y", " ", "p", "r", "e", "s", "s">>,
     <<" ", "K", "E", "Y", " ", "P", "R", "E", "S", "S", "\t">>,
     <<"K", "e", "y", " ", "P", "r", "e", "s", "s">>,
     <<"M", "o", "d", "-", "T", "a", "p">>,
     <<"M", "O", "D", " ", "T", "A", "P">>,
     <<"M", "a", "c", "r", "o">>,
     <<"n", "o", "n", "e">>}

Unclassified == <<"unclassified", "unclassified">>

NamesIdle ==
    /\ names = <<<<>>, <<>>>>
    /\ roles = Unclassified

----------------------------------------------------------------------------
(* keycode.rs: HidUsage, KeyCode, KeyboardCode, ModifierKey *)

HID_USAGE_PAGE_GENERIC_DESKTOP == 1
HID_USAGE_PAGE_KEYBOARD == 7
HID_USAGE_PAGE_CONSUMER == 12

\* struct HidUsage { page: u16, id: u16 }
HidUsage(page, id) == [page |-> page, id |-> id]

\* HidUsage::encode: ((page as u32) << 16) | (id as u32), as the two halves
HidUsage_encode(u) == <<u.page, u.id>>

\* HidUsage::decode: page = (encoded >> 16) & 0xFF, id = encoded & 0xFFFF
HidUsage_decode(enc) == HidUsage(enc[1] % 256, enc[2])

\* enum ModifierKey, in the order of its usage ids 224..231
ModifierKeys ==
    <<"LeftControl", "LeftShift", "LeftAlt", "LeftGui",
      "RightControl", "RightShift", "RightAlt", "RightGui">>

\* ModifierKey::usage_id
ModifierKey_usage_id(m) == 223 + CHOOSE i \in 1..Len(ModifierKeys) : ModifierKeys[i] = m

\* enum KeyboardCode
Modifier(m) == [kind |-> "Modifier", modifier |-> m, id |-> 0]
UsageId(id) == [kind |-> "UsageId", modifier |-> "", id |-> id]

\* KeyboardCode::usage_id
KeyboardCode_usage_id(kbd) ==
    IF kbd.kind = "Modifier" THEN ModifierKey_usage_id(kbd.modifier) ELSE kbd.id

\* KeyboardCode::from_usage_id, with ModifierKey::from_usage_id
KeyboardCode_from_usage_id(id) ==
    IF id \in 224..231 THEN Modifier(ModifierKeys[id - 223]) ELSE UsageId(id)

\* enum KeyCode
Keyboard(kbd) == [kind |-> "Keyboard", kbd |-> kbd, page |-> 0, id |-> 0]
Consumer(id) == [kind |-> "Consumer", kbd |-> UsageId(0), page |-> 0, id |-> id]
GenericDesktop(id) == [kind |-> "GenericDesktop", kbd |-> UsageId(0), page |-> 0, id |-> id]
Other(usage) == [kind |-> "Other", kbd |-> UsageId(0), page |-> usage.page, id |-> usage.id]

\* the key field of a Behavior that has none
NoKey == [kind |-> "none", kbd |-> UsageId(0), page |-> 0, id |-> 0]

\* KeyCode::to_hid_usage
to_hid_usage(key) ==
    CASE key.kind = "Keyboard" ->
            HidUsage_encode(HidUsage(HID_USAGE_PAGE_KEYBOARD, KeyboardCode_usage_id(key.kbd)))
      [] key.kind = "Consumer" ->
            HidUsage_encode(HidUsage(HID_USAGE_PAGE_CONSUMER, key.id))
      [] key.kind = "GenericDesktop" ->
            HidUsage_encode(HidUsage(HID_USAGE_PAGE_GENERIC_DESKTOP, key.id))
      [] OTHER -> HidUsage_encode(HidUsage(key.page, key.id))

\* KeyCode::from_hid_usage
from_hid_usage(enc) ==
    LET raw == HidUsage_decode(enc)
    IN CASE raw.page = HID_USAGE_PAGE_KEYBOARD ->
                Keyboard(KeyboardCode_from_usage_id(raw.id))
         [] raw.page = HID_USAGE_PAGE_CONSUMER -> Consumer(raw.id)
         [] raw.page = HID_USAGE_PAGE_GENERIC_DESKTOP -> GenericDesktop(raw.id)
         [] OTHER -> Other(raw)

\* the Option that get_key_at matches on: from_hid_usage gives a key for
\* every encoded value
Keycode_from_hid_usage(enc) == [some |-> TRUE, key |-> from_hid_usage(enc)]

----------------------------------------------------------------------------
(* binding.rs: Behavior; client.rs: get_key_at, set_key_at and the catalog *)

\* zmk::keymap::BehaviorBinding { behavior_id: i32, param1: u32, param2: u32 }
Binding(id, p1, p2) == [behavior_id |-> id, param1 |-> p1, param2 |-> p2]

NoBinding == Binding(0, <<0, 0>>, <<0, 0>>)

\* enum Behavior: the variant, its key operands, its u32 operands and, for
\* Raw, the behavior id of the binding it carries
Behavior(variant, key1, key2, p1, p2, id) ==
    [variant |-> variant, key1 |-> key1, key2 |-> key2, p1 |-> p1, p2 |-> p2,
     behavior_id |-> id]

OneKeyRoles == {"KeyPress", "KeyToggle", "StickyKey"}
OneParamRoles ==
    {"StickyLayer", "MomentaryLayer", "ToggleLayer", "ToLayer", "ExternalPower",
     "OutputSelection", "MouseKeyPress", "MouseMove", "MouseScroll"}
TwoParamRoles == {"Bluetooth", "Backlight", "Underglow"}

\* KeyPress(key), KeyToggle(key), StickyKey(key)
OneKey(variant, key) == Behavior(variant, key, NoKey, <<0, 0>>, <<0, 0>>, 0)
\* LayerTap { layer_id, tap }
LayerTap(layer_id, tap) == Behavior("LayerTap", tap, NoKey, layer_id, <<0, 0>>, 0)
\* ModTap { hold, tap }
ModTap(hold, tap) == Behavior("ModTap", hold, tap, <<0, 0>>, <<0, 0>>, 0)
\* StickyLayer { layer_id } .. ToLayer { layer_id }, ExternalPower { value } ..
OneParam(variant, v) == Behavior(variant, NoKey, NoKey, v, <<0, 0>>, 0)
\* Bluetooth { command, value }, Backlight, Underglow
TwoParams(variant, command, value) == Behavior(variant, NoKey, NoKey, command, value, 0)
\* CapsWord .. None
NoOperands(variant) == Behavior(variant, NoKey, NoKey, <<0, 0>>, <<0, 0>>, 0)
\* Raw(binding)
Raw(binding) ==
    Behavior("Raw", NoKey, NoKey, binding.param1, binding.param2, binding.behavior_id)

\* a get_key_at that gives the behavior None for a binding whose id has no role
decode_binding_UnknownIsNone(roleById, binding) ==
    IF binding.behavior_id < 0 THEN NoOperands("None")
    ELSE IF U32FromNat(binding.behavior_id) \notin DOMAIN roleById
    THEN NoOperands("None")
    ELSE Raw(binding)

\* get_key_at from u32::try_from(binding.behavior_id) on: the typed value of a
\* binding under the role table
decode_binding(roleById, binding) ==
    IF binding.behavior_id < 0 THEN Raw(binding)
    ELSE IF U32FromNat(binding.behavior_id) \notin DOMAIN roleById
    THEN Raw(binding)
    ELSE LET role == roleById[U32FromNat(binding.behavior_id)]
             k1 == Keycode_from_hid_usage(binding.param1)
             k2 == Keycode_from_hid_usage(binding.param2)
         IN CASE role \in OneKeyRoles ->
                   IF k1.some THEN OneKey(role, k1.key) ELSE Raw(binding)
              [] role = "LayerTap" ->
                   IF k2.some THEN LayerTap(binding.param1, k2.key) ELSE Raw(binding)
              [] role = "ModTap" ->
                   IF k1.some /\ k2.some THEN ModTap(k1.key, k2.key) ELSE Raw(binding)
              [] role \in OneParamRoles -> OneParam(role, binding.param1)
              [] role \in TwoParamRoles ->
                   TwoParams(role, binding.param1, binding.param2)
              [] OTHER -> NoOperands(role)

\* a binding_at that takes layer_id for the index of the layer and lets the
\* position be the number of bindings
binding_at_ByIndex(keymap, layer_id, key_position) ==
    IF key_position < 0 \/ layer_id + 1 > Len(keymap)
    THEN [some |-> FALSE, binding |-> NoBinding]
    ELSE IF key_position + 1 <= Len(keymap[layer_id + 1].bindings)
    THEN [some |-> TRUE, binding |-> keymap[layer_id + 1].bindings[key_position + 1]]
    ELSE [some |-> TRUE, binding |-> NoBinding]

\* binding_at
binding_at(keymap, layer_id, key_position) ==
    IF key_position < 0 THEN [some |-> FALSE, binding |-> NoBinding]
    ELSE IF ~\E i \in 1..Len(keymap) : keymap[i].id = layer_id
    THEN [some |-> FALSE, binding |-> NoBinding]
    ELSE LET i == CHOOSE i \in 1..Len(keymap) :
                    /\ keymap[i].id = layer_id
                    /\ \A j \in 1..(i - 1) : keymap[j].id # layer_id
         IN IF key_position + 1 <= Len(keymap[i].bindings)
            THEN [some |-> TRUE, binding |-> keymap[i].bindings[key_position + 1]]
            ELSE [some |-> FALSE, binding |-> NoBinding]

\* a behavior_id_for that casts the id (`as i32`) instead of converting it
behavior_id_for_Casts(idByRole, role) ==
    IF role \notin DOMAIN idByRole
    THEN [ok |-> TRUE, err |-> "none", id |-> 0, u32 |-> <<0, 0>>]
    ELSE LET id == idByRole[role]
         IN [ok |-> TRUE, err |-> "none",
             id |-> IF id[1] < 32768 THEN id[1] * U16 + id[2]
                    ELSE (id[1] - 65536) * U16 + id[2],
             u32 |-> id]

\* behavior_id_for: the i32 id of a role, MissingBehaviorRole(display name)
\* without one, BehaviorIdOutOfRange { behavior_id } when i32::try_from fails
behavior_id_for(idByRole, role) ==
    IF role \notin DOMAIN idByRole
    THEN [ok |-> FALSE, err |-> "MissingBehaviorRole", id |-> 0, u32 |-> <<0, 0>>]
    ELSE LET id == idByRole[role]
         IN IF id[1] < 32768
            THEN [ok |-> TRUE, err |-> "none", id |-> id[1] * U16 + id[2], u32 |-> id]
            ELSE [ok |-> FALSE, err |-> "BehaviorIdOutOfRange", id |-> 0, u32 |-> id]

\* the match of set_key_at: the binding of a Behavior under the id table
encode_behavior(idByRole, behavior) ==
    IF behavior.variant = "Raw"
    THEN [ok |-> TRUE, err |-> "none", u32 |-> <<0, 0>>,
          binding |-> Binding(behavior.behavior_id, behavior.p1, behavior.p2)]
    ELSE LET r == behavior_id_for(idByRole, behavior.variant)
             v == behavior.variant
         IN [ok |-> r.ok, err |-> r.err, u32 |-> r.u32,
             binding |->
               IF ~r.ok THEN NoBinding
               ELSE CASE v \in OneKeyRoles ->
                           Binding(r.id, to_hid_usage(behavior.key1), <<0, 0>>)
                      [] v = "LayerTap" ->
                           Binding(r.id, behavior.p1, to_hid_usage(behavior.key1))
                      [] v = "ModTap" ->
                           Binding(r.id, to_hid_usage(behavior.key1),
                                   to_hid_usage(behavior.key2))
                      [] v \in OneParamRoles -> Binding(r.id, behavior.p1, <<0, 0>>)
                      [] v \in TwoParamRoles -> Binding(r.id, behavior.p1, behavior.p2)
                      [] OTHER -> Binding(r.id, <<0, 0>>, <<0, 0>>)]

\* a request of the behaviors or keymap subsystem, as far as the model tells
\* them apart
Req(rpc, id, layer_id, key_position, binding) ==
    [rpc |-> rpc, behavior_id |-> id, layer_id |-> layer_id,
     key_position |-> key_position, binding |-> binding]

ListAllBehaviors == Req("list_all_behaviors", <<0, 0>>, 0, 0, NoBinding)
GetBehaviorDetails(id) == Req("get_behavior_details", id, 0, 0, NoBinding)
GetKeymap == Req("get_keymap", <<0, 0>>, 0, 0, NoBinding)
SetLayerBinding(layer_id, key_position, binding) ==
    Req("set_layer_binding", <<0, 0>>, layer_id, key_position, binding)
SaveChanges == Req("save_changes", <<0, 0>>, 0, 0, NoBinding)
DiscardChanges == Req("discard_changes", <<0, 0>>, 0, 0, NoBinding)

\* the state of ensure_behavior_catalog on its way: whether it goes on, the
\* tables, the requests sent, and whether the whole catalog has been fetched
Catalog(ok, roleById, idByRole, log, built) ==
    [ok |-> ok, roleById |-> roleById, idByRole |-> idByRole, log |-> log,
     built |-> built]

\* a loop that fills the role table only: the id table gets no entry
RECURSIVE CatalogLoop_RoleTableOnly(_, _, _, _, _, _)
CatalogLoop_RoleTableOnly(fw, i, roleById, idByRole, log, failAt) ==
    IF i > Len(fw) THEN Catalog(TRUE, roleById, idByRole, log, TRUE)
    ELSE LET sentLog == Append(log, GetBehaviorDetails(fw[i].id))
             role == role_from_display_name(fw[i].name)
         IN IF failAt = Len(sentLog)
            THEN Catalog(FALSE, roleById, idByRole, sentLog, FALSE)
            ELSE IF role # NoRole
            THEN CatalogLoop_RoleTableOnly(fw, i + 1, (fw[i].id :> role) @@ roleById,
                                           idByRole, sentLog, failAt)
            ELSE CatalogLoop_RoleTableOnly(fw, i + 1, roleById, idByRole, sentLog, failAt)

\* a loop that lets a later id of a role replace the one in the id table
\* (insert instead of entry(role).or_insert)
RECURSIVE CatalogLoop_KeepsLast(_, _, _, _, _, _)
CatalogLoop_KeepsLast(fw, i, roleById, idByRole, log, failAt) ==
    IF i > Len(fw) THEN Catalog(TRUE, roleById, idByRole, log, TRUE)
    ELSE LET sentLog == Append(log, GetBehaviorDetails(fw[i].id))
             role == role_from_display_name(fw[i].name)
         IN IF failAt = Len(sentLog)
            THEN Catalog(FALSE, roleById, idByRole, sentLog, FALSE)
            ELSE IF role # NoRole
            THEN CatalogLoop_KeepsLast(fw, i + 1, (fw[i].id :> role) @@ roleById,
                                       (role :> fw[i].id) @@ idByRole, sentLog, failAt)
            ELSE CatalogLoop_KeepsLast(fw, i + 1, roleById, idByRole, sentLog, failAt)

\* the loop of ensure_behavior_catalog over the ids listed, from the i-th on;
\* the failAt-th call of the operation fails
RECURSIVE CatalogLoop(_, _, _, _, _, _)
CatalogLoop(fw, i, roleById, idByRole, log, failAt) ==
    IF i > Len(fw) THEN Catalog(TRUE, roleById, idByRole, log, TRUE)
    ELSE LET sentLog == Append(log, GetBehaviorDetails(fw[i].id))
             role == role_from_display_name(fw[i].name)
         IN IF failAt = Len(sentLog)
            THEN Catalog(FALSE, roleById, idByRole, sentLog, FALSE)
            ELSE IF role # NoRole
            THEN CatalogLoop(fw, i + 1, (fw[i].id :> role) @@ roleById,
                             idByRole @@ (role :> fw[i].id), sentLog, failAt)
            ELSE CatalogLoop(fw, i + 1, roleById, idByRole, sentLog, failAt)

\* ensure_behavior_catalog on a device whose catalog is fw
ensure_behavior_catalog(roleById, idByRole, fw, failAt) ==
    IF DOMAIN roleById # {}
    THEN Catalog(TRUE, roleById, idByRole, <<>>, FALSE)
    ELSE IF failAt = 1
    THEN Catalog(FALSE, roleById, idByRole, <<ListAllBehaviors>>, FALSE)
    ELSE CatalogLoop(fw, 1, roleById, idByRole, <<ListAllBehaviors>>, failAt)

\* what get_key_at or set_key_at did: the operation and its arguments, the
\* result, the binding read or built, and the binding the device held at the
\* address when the operation began (held says whether it held one)
KmResult(op, layer_id, key_position, arg, ok, err, behavior, binding, u32, stored) ==
    [op |-> op, layer_id |-> layer_id, key_position |-> key_position, arg |-> arg,
     ok |-> ok, err |-> err, behavior |-> behavior, binding |-> binding,
     u32 |-> u32, held |-> stored.some, stored |-> stored.binding]

NoKmResult ==
    KmResult("none", 0, 0, NoOperands("None"), TRUE, "none", NoOperands("None"),
             NoBinding, <<0, 0>>, [some |-> FALSE, binding |-> NoBinding])

\* the error of a call that fails (a transport error, a meta result, ..)
CallFailed == "Io(TimedOut)"

\* the request counter after n more calls
RECURSIVE wrapping_add_n(_, _)
wrapping_add_n(x, n) == IF n = 0 THEN x ELSE wrapping_add_n(wrapping_add_1(x), n - 1)

RECURSIVE CountAdd(_, _)
CountAdd(c, n) == IF n = 0 THEN c ELSE CountAdd(CountSucc(c), n - 1)

\* get_key_at: the catalog, get_keymap, binding_at and the decoding
get_key_at(layer_id, key_position, failAt) ==
    LET c == ensure_behavior_catalog(behavior_role_by_id, behavior_id_by_role,
                                     fwBehaviors, failAt)
        log == Append(c.log, GetKeymap)
        b == binding_at(fwKeymap, layer_id, key_position)
        d == decode_binding(c.roleById, b.binding)
        res(ok, err, behavior, binding) ==
            KmResult("get_key_at", layer_id, key_position, NoOperands("None"),
                     ok, err, behavior, binding, <<0, 0>>, b)
    IN IF ~c.ok
       THEN [catalog |-> c, log |-> c.log,
             result |-> res(FALSE, CallFailed, NoOperands("None"), NoBinding)]
       ELSE IF failAt = Len(log)
       THEN [catalog |-> c, log |-> log,
             result |-> res(FALSE, CallFailed, NoOperands("None"), NoBinding)]
       ELSE IF ~b.some
       THEN [catalog |-> c, log |-> log,
             result |-> res(FALSE, "InvalidLayerOrPosition", NoOperands("None"),
                            NoBinding)]
       ELSE [catalog |-> c, log |-> log,
             result |-> res(TRUE, "none", d, b.binding)]

\* set_key_at followed by a save_changes request
set_key_at_AlsoSaves(layer_id, key_position, behavior, failAt) ==
    LET c == ensure_behavior_catalog(behavior_role_by_id, behavior_id_by_role,
                                     fwBehaviors, failAt)
        e == encode_behavior(c.idByRole, behavior)
        log == Append(c.log, SetLayerBinding(layer_id, key_position, e.binding))
        b == binding_at(fwKeymap, layer_id, key_position)
        res(ok, err, binding, u32) ==
            KmResult("set_key_at", layer_id, key_position, behavior,
                     ok, err, NoOperands("None"), binding, u32, b)
    IN IF ~c.ok
       THEN [catalog |-> c, log |-> c.log, applied |-> FALSE,
             result |-> res(FALSE, CallFailed, NoBinding, <<0, 0>>)]
       ELSE IF ~e.ok
       THEN [catalog |-> c, log |-> c.log, applied |-> FALSE,
             result |-> res(FALSE, e.err, NoBinding, e.u32)]
       ELSE IF failAt = Len(log)
       THEN [catalog |-> c, log |-> log, applied |-> FALSE,
             result |-> res(FALSE, CallFailed, e.binding, <<0, 0>>)]
       ELSE IF ~b.some
       THEN [catalog |-> c, log |-> log, applied |-> FALSE,
             result |-> res(FALSE, "SetLayerBindingFailed", e.binding, <<0, 0>>)]
       ELSE [catalog |-> c, log |-> Append(log, SaveChanges), applied |-> TRUE,
             result |-> res(TRUE, "none", e.binding, <<0, 0>>)]

\* set_key_at: the catalog, the binding of the behavior, set_layer_binding;
\* the device answers SetLayerBindingRespOk for an address it has and
\* an error code otherwise
set_key_at(layer_id, key_position, behavior, failAt) ==
    LET c == ensure_behavior_catalog(behavior_role_by_id, behavior_id_by_role,
                                     fwBehaviors, failAt)
        e == encode_behavior(c.idByRole, behavior)
        log == Append(c.log, SetLayerBinding(layer_id, key_position, e.binding))
        b == binding_at(fwKeymap, layer_id, key_position)
        res(ok, err, binding, u32) ==
            KmResult("set_key_at", layer_id, key_position, behavior,
                     ok, err, NoOperands("None"), binding, u32, b)
    IN IF ~c.ok
       THEN [catalog |-> c, log |-> c.log, applied |-> FALSE,
             result |-> res(FALSE, CallFailed, NoBinding, <<0, 0>>)]
       ELSE IF ~e.ok
       THEN [catalog |-> c, log |-> c.log, applied |-> FALSE,
             result |-> res(FALSE, e.err, NoBinding, e.u32)]
       ELSE IF failAt = Len(log)
       THEN [catalog |-> c, log |-> log, applied |-> FALSE,
             result |-> res(FALSE, CallFailed, e.binding, <<0, 0>>)]
       ELSE IF ~b.some
       THEN [catalog |-> c, log |-> log, applied |-> FALSE,
             result |-> res(FALSE, "SetLayerBindingFailed", e.binding, <<0, 0>>)]
       ELSE [catalog |-> c, log |-> log, applied |-> TRUE,
             result |-> res(TRUE, "none", e.binding, <<0, 0>>)]

\* save_changes and discard_changes: one request each; answer is what the
\* device says ("ok", or "err" for the Err arm of save_changes) or "io" for a
\* call that fails
save_changes(answer) ==
    [log |-> <<SaveChanges>>,
     result |-> KmResult("save_changes", 0, 0, NoOperands("None"), answer = "ok",
                         CASE answer = "ok" -> "none"
                           [] answer = "err" -> "SaveChangesFailed"
                           [] OTHER -> CallFailed,
                         NoOperands("None"), NoBinding, <<0, 0>>,
                         [some |-> FALSE, binding |-> NoBinding])]

discard_changes(answer) ==
    [log |-> <<DiscardChanges>>,
     result |-> KmResult("discard_changes", 0, 0, NoOperands("None"), answer = "ok",
                         IF answer = "ok" THEN "none" ELSE CallFailed,
                         NoOperands("None"), NoBinding, <<0, 0>>,
                         [some |-> FALSE, binding |-> NoBinding])]

\* what the device has persisted after the requests of log, the last of which
\* it answered: a save_changes request it carries out persists the working
\* keymap
Persisted(saved, working, log, carriedOut) ==
    IF carriedOut /\ \E i \in 1..Len(log) : log[i].rpc = "save_changes"
    THEN working ELSE saved

\* the device's keymap with the binding at an address it has replaced
WithBinding(keymap, layer_id, key_position, binding) ==
    LET i == CHOOSE i \in 1..Len(keymap) :
                /\ keymap[i].id = layer_id
                /\ \A j \in 1..(i - 1) : keymap[j].id # layer_id
    IN [keymap EXCEPT ![i].bindings[key_position + 1] = binding]

\* ---- the devices and the callers of SpecKeymap ----

\* the behavior catalogs of the devices: the one of the scenario, one with two
\* ids of one role, one whose only behavior is named as set_key_at names
\* GraveEscape, one with an id above i32::MAX and one whose only behavior has
\* a name of no role
Catalogs ==
    {<<[id |-> <<0, 3>>, name |-> DisplayNameOf("KeyPress")],
       [id |-> <<0, 7>>, name |-> DisplayNameOf("MomentaryLayer")]>>,
     <<[id |-> <<0, 3>>, name |-> DisplayNameOf("KeyPress")],
       [id |-> <<0, 5>>, name |-> <<" ", "K", "E", "Y", " ", "P", "R", "E", "S", "S">>]>>,
     <<[id |-> <<0, 9>>, name |-> DisplayNameOf("GraveEscape")]>>,
     <<[id |-> <<32768, 1>>, name |-> DisplayNameOf("ModTap")],
       [id |-> <<0, 7>>, name |-> DisplayNameOf("LayerTap")]>>,
     <<[id |-> <<0, 4>>, name |-> <<"M", "a", "c", "r", "o">>]>>}

\* the keymap of the devices: layer 0 holds key press A, a binding of id 7
\* with both parameters set and a binding with a negative id; layer 5 holds a
\* binding of an id no catalog lists, key press A of id 5 and key press
\* shift-A (modifier bits above the usage page)
Keymap ==
    <<[id |-> 0,
       bindings |-> <<Binding(3, <<7, 4>>, <<0, 0>>),
                      Binding(7, <<0, 1>>, <<7, 9>>),
                      Binding(-1, <<0, 1>>, <<0, 2>>)>>],
      [id |-> 5,
       bindings |-> <<Binding(99, <<0, 1>>, <<0, 2>>),
                      Binding(5, <<7, 4>>, <<0, 0>>),
                      Binding(3, <<519, 4>>, <<0, 0>>)>>]>>

LayerIds == {0, 2, 5}
KeyPositions == {-1, 0, 1, 2, 3}

\* the keys callers pass: A, left control as a plain usage id and as a
\* modifier, a consumer usage and a usage of another page
Keys ==
    {Keyboard(UsageId(4)), Keyboard(UsageId(224)), Keyboard(Modifier("LeftControl")),
     Consumer(226), Other(HidUsage(13, 1))}

\* the behaviors callers pass to set_key_at
Behaviors ==
    {OneKey("KeyPress", k) : k \in Keys}
    \cup {LayerTap(<<0, 1>>, Keyboard(UsageId(4))),
          ModTap(Keyboard(Modifier("LeftControl")), Keyboard(UsageId(4))),
          OneParam("MomentaryLayer", <<0, 1>>),
          TwoParams("Bluetooth", <<0, 1>>, <<0, 2>>),
          NoOperands("GraveEscape"),
          Raw(Binding(99, <<0, 1>>, <<0, 2>>))}

\* the addresses callers write to: one the device has, one it lacks, and the
\* one of the operation before
SetAddresses == {<<0, 0>>, <<2, 0>>, <<prevResult.layer_id, prevResult.key_position>>}
               \cup {<<kmResult.layer_id, kmResult.key_position>>}

\* the behaviors callers write: those above and the one get_key_at returned last
SetBehaviors ==
    Behaviors \cup (IF kmResult.op = "get_key_at" /\ kmResult.ok
                    THEN {kmResult.behavior} ELSE {})

FailPoints == 0..MaxFailAt

KeymapIdle ==
    /\ behavior_role_by_id = <<>>
    /\ behavior_id_by_role = <<>>
    /\ fwBehaviors = <<>>
    /\ fwKeymap = <<>>
    /\ fwSaved = <<>>
    /\ rpcLog = <<>>
    /\ buildsCompleted = 0
    /\ kmResult = NoKmResult
    /\ prevResult = NoKmResult
    /\ kmOps = 0

\* a new client, connected to a device with one of the catalogs
KeymapStart ==
    /\ behavior_role_by_id = <<>>
    /\ behavior_id_by_role = <<>>
    /\ fwBehaviors \in Catalogs
    /\ fwKeymap = Keymap
    /\ fwSaved = Keymap
    /\ rpcLog = <<>>
    /\ buildsCompleted = 0
    /\ kmResult = NoKmResult
    /\ prevResult = NoKmResult
    /\ kmOps = 0

\* what every call of an operation does to the engine: the request counter
\* advances once per request sent
AfterCalls(log) ==
    /\ next_request_id' = wrapping_add_n(next_request_id, Len(log))
    /\ callsMade' = CountAdd(callsMade, Len(log))
    /\ UNCHANGED <<responses, notifications, written, pc, request_id, lastResult,
                   lastSeen, notifLog, handed, rnbLast, ops, sent>>
    /\ UNCHANGED <<framingVars, namesVars, hidVars, bleVars, engineVars, lateVars, typedVars>>

GetKeyAt(layer_id, key_position, failAt) ==
    /\ kmOps < MaxKeymapOps
    /\ kmOps' = kmOps + 1
    /\ LET g == get_key_at(layer_id, key_position, failAt)
       IN /\ behavior_role_by_id' = g.catalog.roleById
          /\ behavior_id_by_role' = g.catalog.idByRole
          /\ buildsCompleted' = buildsCompleted + (IF g.catalog.built THEN 1 ELSE 0)
          /\ rpcLog' = g.log
          /\ kmResult' = g.result
          /\ prevResult' = kmResult
          /\ fwSaved' = Persisted(fwSaved, fwKeymap, g.log, g.result.ok)
          /\ AfterCalls(g.log)
    /\ UNCHANGED <<fwBehaviors, fwKeymap>>

SetKeyAt(layer_id, key_position, behavior, failAt) ==
    /\ kmOps < MaxKeymapOps
    /\ kmOps' = kmOps + 1
    /\ LET t == set_key_at(layer_id, key_position, behavior, failAt)
       IN /\ behavior_role_by_id' = t.catalog.roleById
          /\ behavior_id_by_role' = t.catalog.idByRole
          /\ buildsCompleted' = buildsCompleted + (IF t.catalog.built THEN 1 ELSE 0)
          /\ rpcLog' = t.log
          /\ kmResult' = t.result
          /\ prevResult' = kmResult
          /\ fwKeymap' = IF t.applied
                         THEN WithBinding(fwKeymap, layer_id, key_position,
                                          t.result.binding)
                         ELSE fwKeymap
          /\ fwSaved' = Persisted(fwSaved, fwKeymap', t.log, t.applied)
          /\ AfterCalls(t.log)
    /\ UNCHANGED fwBehaviors

\* the answers of the device to save_changes and discard_changes, and a call
\* that fails
Answers == {"ok", "err", "io"}

SaveChangesCall(answer) ==
    /\ kmOps < MaxKeymapOps
    /\ kmOps' = kmOps + 1
    /\ LET v == save_changes(answer)
       IN /\ rpcLog' = v.log
          /\ kmResult' = v.result
          /\ prevResult' = kmResult
          /\ fwSaved' = Persisted(fwSaved, fwKeymap, v.log, v.result.ok)
          /\ AfterCalls(v.log)
    /\ UNCHANGED <<behavior_role_by_id, behavior_id_by_role, buildsCompleted,
                   fwBehaviors, fwKeymap>>

DiscardChangesCall(answer) ==
    /\ kmOps < MaxKeymapOps
    /\ kmOps' = kmOps + 1
    /\ answer # "err"
    /\ LET v == discard_changes(answer)
       IN /\ rpcLog' = v.log
          /\ kmResult' = v.result
          /\ prevResult' = kmResult
          /\ fwKeymap' = IF v.result.ok THEN fwSaved ELSE fwKeymap
          /\ AfterCalls(v.log)
    /\ UNCHANGED <<behavior_role_by_id, behavior_id_by_role, buildsCompleted,
                   fwBehaviors, fwSaved>>

KeymapInit ==
    /\ KeymapStart
    /\ ClientInit
    /\ FramingStart
    /\ NamesIdle
    /\ HidIdle
    /\ BleIdle
    /\ EngineIdle
    /\ LateIdle
    /\ TypedIdle

KeymapNext ==
    \/ \E l \in LayerIds, p \in KeyPositions, f \in FailPoints : GetKeyAt(l, p, f)
    \/ \E a \in SetAddresses, b \in SetBehaviors, f \in FailPoints :
            SetKeyAt(a[1], a[2], b, f)
    \/ \E a \in Answers : SaveChangesCall(a)
    \/ \E a \in Answers : DiscardChangesCall(a)

SpecKeymap == KeymapInit /\ [][KeymapNext]_vars

----------------------------------------------------------------------------
(* SpecNames: role_from_display_name on two display names *)

NamesInit ==
    /\ names \in DisplayNames \X DisplayNames
    /\ roles = Unclassified
    /\ KeymapIdle
    /\ ClientInit
    /\ FramingStart
    /\ BleIdle
    /\ EngineIdle
    /\ LateIdle
    /\ TypedIdle
    /\ HidIdle

Classify ==
    /\ roles = Unclassified
    /\ roles' = <<role_from_display_name(names[1]), role_from_display_name(names[2])>>
    /\ UNCHANGED <<names, framingVars, clientVars, keymapVars, bleVars, engineVars, lateVars, typedVars,
                   hidVars>>

NamesNext == Classify

SpecNames == NamesInit /\ [][NamesNext]_vars

----------------------------------------------------------------------------
(* Spec: the RPC client engine and its device *)

Next ==
    \/ \E w \in BOOLEAN : CallStart(w)
    \/ \E rd \in Reads : CallStep(rd)
    \/ NextNotification
    \/ RnbStart
    \/ \E rd \in Reads : RnbStep(rd)
    \/ \E r \in DeviceResponses : DeviceSend(r)
    \/ \E bytes \in {encode_frame(<<9>>), <<1>>} : DeviceSendBytes(bytes)

Init ==
    /\ ClientInit
    /\ FramingStart
    /\ KeymapIdle
    /\ NamesIdle
    /\ HidIdle
    /\ BleIdle
    /\ EngineIdle
    /\ LateIdle
    /\ TypedIdle

Spec == Init /\ [][Next]_vars

----------------------------------------------------------------------------
(* SpecFraming: the codec and its peer *)

FramingInit ==
    /\ FramingStart
    /\ ClientInit
    /\ KeymapIdle
    /\ NamesIdle
    /\ HidIdle
    /\ BleIdle
    /\ EngineIdle
    /\ LateIdle
    /\ TypedIdle

FramingNext ==
    \/ \E p \in Payloads : SendFrame(p)
    \/ \E b \in Byte : SendRaw(b)
    \/ \E n \in 1..Len(wire) : PushChunk(n)

SpecFraming == FramingInit /\ [][FramingNext]_vars

----------------------------------------------------------------------------
(* SpecCodec: one payload, encoded once and decoded in any chunking *)

CodecPayloads == SeqsUpTo(Byte, MaxPayload)

CodecInit ==
    /\ payload \in CodecPayloads
    /\ decoder = NewDecoder
    /\ wire = <<>>
    /\ wireTotal = 0
    /\ sentFrames = <<>>
    /\ rawKinds = {}
    /\ rawCount = 0
    /\ delivered = <<>>
    /\ lastPush = NoPush
    /\ prevErr = "none"
    /\ encoded = <<>>
    /\ ClientInit
    /\ KeymapIdle
    /\ NamesIdle
    /\ HidIdle
    /\ BleIdle
    /\ EngineIdle
    /\ LateIdle
    /\ TypedIdle

EncodeOnce ==
    /\ sentFrames = <<>>
    /\ WriteFrame(payload)

CodecNext ==
    \/ EncodeOnce
    \/ \E n \in 1..Len(wire) : PushChunk(n)

SpecCodec == CodecInit /\ [][CodecNext]_vars

----------------------------------------------------------------------------
(* SpecIds: calls only, on a client that has made any number of calls *)

\* the numbers of calls already made when the run starts: none, one less than
\* 2^16 and one less than 2^32 (the next id is u32::MAX)
CallCounts == {<<0, 0>>, <<0, U16 - 1>>, <<U16 - 1, U16 - 1>>}

\* the device of SpecIds answers the latest request, with a keymap result or
\* with the meta result NoResponse
IdsDeviceResponses ==
    {RequestResponse(request_id, sub) : sub \in {"keymap", "meta_no_response"}}

IdsInit ==
    /\ \E n \in CallCounts : ClientAfter(n)
    /\ FramingStart
    /\ KeymapIdle
    /\ NamesIdle
    /\ HidIdle
    /\ BleIdle
    /\ EngineIdle
    /\ LateIdle
    /\ TypedIdle

IdsNext ==
    \/ \E w \in BOOLEAN : CallStart(w)
    \/ \E rd \in Reads : CallStep(rd)
    \/ \E r \in IdsDeviceResponses : DeviceSend(r)

SpecIds == IdsInit /\ [][IdsNext]_vars

----------------------------------------------------------------------------
(* SpecMeta: calls answered by a device that reports meta results *)

\* the raw SimpleError codes the device of SpecMeta reports: two
\* ErrorConditions and two values that are none
SimpleErrorCodes == {1, 4, 5, -1}

\* the device answers the call in progress, after a notification or not
MetaDeviceResponses ==
    {Notification(sent + 1)}
    \cup {RequestResponse(request_id, sub) :
            sub \in {"keymap", "meta_no_response", "meta_no_response_false",
                     "meta_empty"}}
    \cup {SimpleError(request_id, raw) : raw \in SimpleErrorCodes}
    \cup {RequestResponse(wrapping_add_1(request_id), "meta_no_response"),
          SimpleError(wrapping_add_1(request_id), 1)}

MetaNext ==
    \/ \E w \in BOOLEAN : CallStart(w)
    \/ \E rd \in Reads : CallStep(rd)
    \/ \E r \in MetaDeviceResponses : pc = "call" /\ DeviceSend(r)

SpecMeta == Init /\ [][MetaNext]_vars

----------------------------------------------------------------------------
(* SpecBle: a BleTransport, its worker thread and its caller *)

\* the lengths of the packets the device notifies and of the caller's buffers
PacketLengths == {0, 1, 3}
BufferLengths == {0, 1, 2, 4}
WriteBuffers == {<<7>>, <<7, 8>>}

BleInit ==
    /\ BleStart
    /\ ClientInit
    /\ FramingStart
    /\ KeymapIdle
    /\ NamesIdle
    /\ HidIdle
    /\ EngineIdle
    /\ LateIdle
    /\ TypedIdle

BleNext ==
    \/ \E o \in SetupOutcomes : WorkerSetup(o)
    \/ ConnectRecv
    \/ \E len \in PacketLengths : WorkerNotification(len, TRUE)
    \/ WorkerNotification(1, FALSE)
    \/ WorkerStreamEnd
    \/ \E ok \in BOOLEAN : WorkerTransmit(ok)
    \/ WorkerOutboundClosed
    \/ WorkerExit
    \/ \E n \in BufferLengths : BleRead(n)
    \/ \E buf \in WriteBuffers : BleWrite(buf)
    \/ DropTransport

SpecBle == BleInit /\ [][BleNext]_vars

\* setup_rx.recv() returns once a result has been sent or the thread is gone
SpecBleLive == SpecBle /\ WF_vars(ConnectRecv)

\* the worker thread keeps running: a buffer on the outbound channel is taken
\* and its peripheral.write returns, write_rx.recv() returns None once the
\* sender is gone and the channel is empty, and peripheral.disconnect() returns
SpecBleDrop ==
    /\ SpecBle
    /\ WF_vars(\E ok \in BOOLEAN : WorkerTransmit(ok))
    /\ WF_vars(WorkerOutboundClosed)
    /\ WF_vars(WorkerExit)

----------------------------------------------------------------------------
(* SpecEngine: calls on one client, observed call by call; the device      *)
(* answers each request at most once and damages the stream only until a  *)
(* call has failed with a framing error                                   *)

\* call is entered
EngineCallStart(writeOk) ==
    /\ CallWrite(writeOk)
    /\ thisCall' = [afterFailure |-> framingFailed,
                    clean |-> (wire = <<>> /\ responses = <<>> /\ decoder = NewDecoder)]
    /\ reply' = "none"
    /\ UNCHANGED <<lastRnr, framingFailed>>
    /\ UNCHANGED <<typedVars, lateVars>>

\* one turn of call's loop
EngineCallStep(rd) ==
    /\ CallTurn(rd)
    /\ LET r == read_next_response(responses, decoder, rd)
       IN /\ lastRnr' = Rnr(r, rd)
          /\ framingFailed' = (framingFailed
                               \/ (r.status = "err" /\ r.err = "Protocol(Framing)"))
    /\ UNCHANGED <<thisCall, reply>>
    /\ UNCHANGED <<typedVars, lateVars>>

\* what the device answers a request with: its response, a response to the
\* request after it, a meta result, or a Response without a type
EngineAnswers ==
    {RequestResponse(request_id, "keymap"),
     RequestResponse(wrapping_add_1(request_id), "keymap"),
     RequestResponse(request_id, "meta_no_response"),
     NoType}

\* the device answers the request of the call in progress
DeviceAnswer(r) ==
    /\ pc = "call"
    /\ reply = "none"
    /\ sent < MaxSent
    /\ sent' = sent + 1
    /\ wire' = wire \o encode_response(r)
    /\ reply' = IF r = RequestResponse(request_id, "keymap") THEN "match" ELSE "other"
    /\ UNCHANGED <<next_request_id, callsMade, responses, notifications, written, pc, request_id,
                   lastResult, lastSeen, notifLog, handed, rnbLast, ops, decoder>>
    /\ UNCHANGED <<lastRnr, thisCall, framingFailed>>
    /\ UNCHANGED <<framingHist, keymapVars, namesVars, hidVars, bleVars, typedVars, lateVars>>

\* the device sends a notification
DeviceNotify ==
    /\ sent < MaxSent
    /\ sent' = sent + 1
    /\ wire' = wire \o encode_response(Notification(sent + 1))
    /\ UNCHANGED <<next_request_id, callsMade, responses, notifications, written, pc, request_id,
                   lastResult, lastSeen, notifLog, handed, rnbLast, ops, decoder>>
    /\ UNCHANGED <<engineVars, lateVars>>
    /\ UNCHANGED <<framingHist, keymapVars, namesVars, hidVars, bleVars, typedVars>>

\* bytes that are no frame of a Response: a stray byte, a frame cut short, a
\* frame whose payload does not decode
DamagedBytes == {<<1>>, <<FRAMING_SOF, 2>>, encode_frame(<<9>>)}

\* the stream is damaged
DeviceDamaged(bytes) ==
    /\ ~framingFailed
    /\ sent < MaxSent
    /\ sent' = sent + 1
    /\ wire' = wire \o bytes
    /\ UNCHANGED <<next_request_id, callsMade, responses, notifications, written, pc, request_id,
                   lastResult, lastSeen, notifLog, handed, rnbLast, ops, decoder>>
    /\ UNCHANGED <<engineVars, lateVars>>
    /\ UNCHANGED <<framingHist, keymapVars, namesVars, hidVars, bleVars, typedVars>>

EngineInit ==
    /\ ClientInit
    /\ FramingStart
    /\ KeymapIdle
    /\ NamesIdle
    /\ HidIdle
    /\ BleIdle
    /\ EngineIdle
    /\ LateIdle
    /\ TypedIdle

EngineNext ==
    \/ \E w \in BOOLEAN : EngineCallStart(w)
    \/ \E rd \in ReadOutcomes : EngineCallStep(rd)
    \/ \E r \in EngineAnswers : DeviceAnswer(r)
    \/ DeviceNotify
    \/ \E bytes \in DamagedBytes : DeviceDamaged(bytes)

SpecEngine == EngineInit /\ [][EngineNext]_vars

----------------------------------------------------------------------------
(* SpecLate: calls on a device that answers every request exactly once and *)
(* in order, but may answer after the call has timed out                  *)

\* call is entered
LateCallStart(writeOk) ==
    /\ CallWrite(writeOk)
    /\ startedLate' = timedOut
    /\ UNCHANGED <<timedOut, answered>>
    /\ UNCHANGED <<engineVars, typedVars>>

\* one turn of call's loop
LateCallStep(rd) ==
    /\ CallTurn(rd)
    /\ LET r == read_next_response(responses, decoder, rd)
       IN timedOut' = (timedOut \/ (r.status = "err" /\ r.err = "Io(TimedOut)"))
    /\ UNCHANGED <<answered, startedLate>>
    /\ UNCHANGED <<engineVars, typedVars>>

\* the device answers the oldest request it has not answered yet, whether or
\* not the call that made it is still waiting
LateDeviceAnswer ==
    /\ answered < Len(written)
    /\ sent < MaxSent
    /\ answered' = answered + 1
    /\ sent' = sent + 1
    /\ wire' = wire \o encode_response(RequestResponse(written[answered + 1], "keymap"))
    /\ UNCHANGED <<next_request_id, callsMade, responses, notifications, written, pc, request_id,
                   lastResult, lastSeen, notifLog, handed, rnbLast, ops, decoder>>
    /\ UNCHANGED <<timedOut, startedLate>>
    /\ UNCHANGED <<framingHist, keymapVars, namesVars, hidVars, bleVars, engineVars, typedVars>>

\* the device sends a notification
LateDeviceNotify ==
    /\ sent < MaxSent
    /\ sent' = sent + 1
    /\ wire' = wire \o encode_response(Notification(sent + 1))
    /\ UNCHANGED <<next_request_id, callsMade, responses, notifications, written, pc, request_id,
                   lastResult, lastSeen, notifLog, handed, rnbLast, ops, decoder>>
    /\ UNCHANGED lateVars
    /\ UNCHANGED <<framingHist, keymapVars, namesVars, hidVars, bleVars, engineVars, typedVars>>

LateInit ==
    /\ ClientInit
    /\ FramingStart
    /\ KeymapIdle
    /\ NamesIdle
    /\ HidIdle
    /\ BleIdle
    /\ EngineIdle
    /\ LateIdle
    /\ TypedIdle

LateNext ==
    \/ \E w \in BOOLEAN : LateCallStart(w)
    \/ \E rd \in ReadOutcomes : LateCallStep(rd)
    \/ LateDeviceAnswer
    \/ LateDeviceNotify

SpecLate == LateInit /\ [][LateNext]_vars

----------------------------------------------------------------------------
(* client.rs: the typed calls call_core, call_behaviors and call_keymap,   *)
(* and SpecTyped: typed calls on a device that answers with results of    *)
(* every subsystem                                                        *)

\* ClientError::UnexpectedSubsystem(name)
UnexpectedSubsystem(name) == [Err("call", "UnexpectedSubsystem") EXCEPT !.field = name]

\* call_core, call_behaviors and call_keymap after self.call(..): res is what
\* call returned, passed on by `?` if it is an error
call_core(res) ==
    IF ~res.ok THEN res
    ELSE CASE res.value.subsystem = "core" -> Ok("call", res.value)
           [] res.value.subsystem = "none" -> Err("call", "MissingSubsystem")
           [] OTHER -> UnexpectedSubsystem("core")

call_behaviors(res) ==
    IF ~res.ok THEN res
    ELSE CASE res.value.subsystem = "behaviors" -> Ok("call", res.value)
           [] res.value.subsystem = "none" -> Err("call", "MissingSubsystem")
           [] OTHER -> UnexpectedSubsystem("behaviors")

\* call_keymap that takes the result of any subsystem
call_keymap_AcceptsAny(res) ==
    IF ~res.ok THEN res
    ELSE CASE res.value.subsystem = "none" -> Err("call", "MissingSubsystem")
           [] OTHER -> Ok("call", res.value)

call_keymap(res) ==
    IF ~res.ok THEN res
    ELSE CASE res.value.subsystem = "keymap" -> Ok("call", res.value)
           [] res.value.subsystem = "none" -> Err("call", "MissingSubsystem")
           [] OTHER -> UnexpectedSubsystem("keymap")

\* the typed call of the subsystem sub
call_typed(sub, res) ==
    CASE sub = "core" -> call_core(res)
      [] sub = "behaviors" -> call_behaviors(res)
      [] OTHER -> call_keymap(res)

TypedSubsystems == {"core", "behaviors", "keymap"}

\* a typed call is entered: self.call(..)?
TypedCallStart(writeOk) ==
    /\ CallWrite(writeOk)
    /\ typedResult' = IF pc' = "idle" THEN call_typed(wanted, lastResult') ELSE NoResult
    /\ UNCHANGED <<wanted, mutation, mutResult>>
    /\ UNCHANGED <<engineVars, lateVars>>

\* a turn of call's loop; when call returns, the match on rr.subsystem
TypedCallStep(rd) ==
    /\ CallTurn(rd)
    /\ typedResult' = IF pc' = "idle" THEN call_typed(wanted, lastResult') ELSE typedResult
    /\ UNCHANGED <<wanted, mutation, mutResult>>
    /\ UNCHANGED <<engineVars, lateVars>>

\* the device of SpecTyped answers the latest request with a result of any
\* subsystem, with none or with a meta result, or sends a notification
TypedDeviceResponses ==
    {Notification(sent + 1)}
    \cup {RequestResponse(request_id, sub) :
            sub \in {"core", "behaviors", "keymap", "none", "meta_no_response"}}

TypedInit ==
    /\ ClientInit
    /\ FramingStart
    /\ KeymapIdle
    /\ NamesIdle
    /\ HidIdle
    /\ BleIdle
    /\ EngineIdle
    /\ LateIdle
    /\ wanted \in TypedSubsystems
    /\ typedResult = NoResult
    /\ mutation = [op |-> "none"]
    /\ mutResult = NoResult

TypedNext ==
    \/ \E w \in BOOLEAN : TypedCallStart(w)
    \/ \E rd \in Reads : TypedCallStep(rd)
    \/ \E r \in TypedDeviceResponses : DeviceSend(r)

SpecTyped == TypedInit /\ [][TypedNext]_vars

----------------------------------------------------------------------------
(* client.rs: the keymap mutations, from the keymap Response to the       *)
(* result, and SpecMutations: each mutation on every Response             *)

\* a keymap Response: its response_type (or "none"), and for the type of a
\* mutation either the raw code it carries (arm "raw") or the arm of its
\* result (oneof Ok / Err(raw) / nothing) with the value or the code
KeymapResponse(t, arm, code) ==
    [type |-> t, arm |-> arm, code |-> code,
     value |-> Resp("Value", <<0, 0>>, "keymap", 7)]

\* the values of the enumerations of proto/zmk/keymap.proto: the codes of
\* SetLayerBindingResponse and SetLayerPropsResponse (0 is ..RespOk) and of
\* the error codes of the other mutations
KeymapEnums ==
    [SetLayerBindingResponse |-> 0..3,
     SetLayerPropsResponse |-> 0..2,
     SaveChangesErrorCode |-> 0..3,
     SetActivePhysicalLayoutErrorCode |-> 0..2,
     MoveLayerErrorCode |-> 0..3,
     AddLayerErrorCode |-> 0..2,
     RemoveLayerErrorCode |-> 0..2,
     RestoreLayerErrorCode |-> 0..3]

\* ClientError::<Operation>Failed(code)
Failed(name, code) == [Err("call", name) EXCEPT !.code = code]

\* () as the value of a result
Unit == NoType

\* the match of set_layer_binding and set_layer_props: the response carries
\* a raw code of the enumeration enum, whose value 0 is the OK code
CodeResult(resp, t, enum, field, failed) ==
    IF resp.type # t THEN Err("call", "MissingResponseType")
    ELSE IF resp.code \notin enum THEN UnknownEnumValue(field, resp.code)
    ELSE IF resp.code = 0 THEN Ok("call", Unit)
    ELSE Failed(failed, resp.code)

\* the match of the other mutations: the response carries a oneof result;
\* unit says whether the value of the Ok arm is dropped
ArmResult(resp, t, enum, field, failed, unit) ==
    IF resp.type # t THEN Err("call", "MissingResponseType")
    ELSE CASE resp.arm = "ok" -> Ok("call", IF unit THEN Unit ELSE resp.value)
           [] resp.arm = "err" ->
                IF resp.code \notin enum THEN UnknownEnumValue(field, resp.code)
                ELSE Failed(failed, resp.code)
           [] OTHER -> Err("call", "MissingResponseType")

set_layer_binding_result(resp) ==
    CodeResult(resp, "SetLayerBinding", KeymapEnums.SetLayerBindingResponse,
               "keymap.set_layer_binding", "SetLayerBindingFailed")

save_changes_result(resp) ==
    ArmResult(resp, "SaveChanges", KeymapEnums.SaveChangesErrorCode,
              "keymap.save_changes", "SaveChangesFailed", TRUE)

set_active_physical_layout_result(resp) ==
    ArmResult(resp, "SetActivePhysicalLayout", KeymapEnums.SetActivePhysicalLayoutErrorCode,
              "keymap.set_active_physical_layout", "SetActivePhysicalLayoutFailed", FALSE)

move_layer_result(resp) ==
    ArmResult(resp, "MoveLayer", KeymapEnums.MoveLayerErrorCode,
              "keymap.move_layer", "MoveLayerFailed", FALSE)

add_layer_result(resp) ==
    ArmResult(resp, "AddLayer", KeymapEnums.AddLayerErrorCode,
              "keymap.add_layer", "AddLayerFailed", FALSE)

remove_layer_result(resp) ==
    ArmResult(resp, "RemoveLayer", KeymapEnums.RemoveLayerErrorCode,
              "keymap.remove_layer", "RemoveLayerFailed", TRUE)

restore_layer_result(resp) ==
    ArmResult(resp, "RestoreLayer", KeymapEnums.RestoreLayerErrorCode,
              "keymap.restore_layer", "RestoreLayerFailed", FALSE)

\* set_layer_props that reports a code outside the enumeration as a failure
\* of the operation
set_layer_props_result_UnknownFails(resp) ==
    IF resp.type # "SetLayerProps" THEN Err("call", "MissingResponseType")
    ELSE IF resp.code = 0 THEN Ok("call", Unit)
    ELSE Failed("SetLayerPropsFailed", resp.code)

set_layer_props_result(resp) ==
    CodeResult(resp, "SetLayerProps", KeymapEnums.SetLayerPropsResponse,
               "keymap.set_layer_props", "SetLayerPropsFailed")

MutationOps ==
    {"set_layer_binding", "save_changes", "set_active_physical_layout", "move_layer",
     "add_layer", "remove_layer", "restore_layer", "set_layer_props"}

mutation_result(op, resp) ==
    CASE op = "set_layer_binding" -> set_layer_binding_result(resp)
      [] op = "save_changes" -> save_changes_result(resp)
      [] op = "set_active_physical_layout" -> set_active_physical_layout_result(resp)
      [] op = "move_layer" -> move_layer_result(resp)
      [] op = "add_layer" -> add_layer_result(resp)
      [] op = "remove_layer" -> remove_layer_result(resp)
      [] op = "restore_layer" -> restore_layer_result(resp)
      [] OTHER -> set_layer_props_result(resp)

\* the raw codes the device reports: those of the enumerations, one above
\* them all and a negative one
RawCodes == {-1, 0, 1, 2, 3, 4, 9}

CodeTypes == {"SetLayerBinding", "SetLayerProps"}
ArmTypes ==
    {"SaveChanges", "SetActivePhysicalLayout", "MoveLayer", "AddLayer", "RemoveLayer",
     "RestoreLayer"}

\* the keymap Responses of the device: of each mutation's type with every
\* code and every arm, of another type, and without a type
KeymapResponses ==
    {KeymapResponse(t, "raw", c) : t \in CodeTypes, c \in RawCodes}
    \cup {KeymapResponse(t, "err", c) : t \in ArmTypes, c \in RawCodes}
    \cup {KeymapResponse(t, a, 0) : t \in ArmTypes, a \in {"ok", "none"}}
    \cup {KeymapResponse("GetKeymap", "none", 0), KeymapResponse("none", "none", 0)}

MutationsInit ==
    /\ ClientInit
    /\ FramingStart
    /\ KeymapIdle
    /\ NamesIdle
    /\ HidIdle
    /\ BleIdle
    /\ EngineIdle
    /\ LateIdle
    /\ wanted = "none"
    /\ typedResult = NoResult
    /\ mutation \in [op : MutationOps, resp : KeymapResponses]
    /\ mutResult = NoResult

\* the mutation returns
MutationReturns ==
    /\ mutResult = NoResult
    /\ mutResult' = mutation_result(mutation.op, mutation.resp)
    /\ UNCHANGED <<wanted, typedResult, mutation>>
    /\ UNCHANGED <<framingVars, clientVars, keymapVars, namesVars, hidVars, bleVars, engineVars, lateVars>>

MutationsNext == MutationReturns

SpecMutations == MutationsInit /\ [][MutationsNext]_vars

----------------------------------------------------------------------------
(* hid_usage.rs: HidUsage, and SpecHid: one encoded usage decoded and     *)
(* encoded again                                                          *)

HID_USAGE_KEYBOARD == 7

\* a | b on unsigned integers
RECURSIVE BitOr(_, _)
BitOr(a, b) ==
    IF a = 0 THEN b
    ELSE IF b = 0 THEN a
    ELSE (IF a % 2 = 1 \/ b % 2 = 1 THEN 1 ELSE 0) + 2 * BitOr(a \div 2, b \div 2)

\* HidUsage::from_encoded: page from bits 23..16 (the keyboard page for 0),
\* id from bits 15..0, modifiers from bits 31..24
from_encoded(e) ==
    LET page == e[1] % 256
    IN [page |-> IF page = 0 THEN HID_USAGE_KEYBOARD ELSE page,
        id |-> e[2],
        modifiers |-> e[1] \div 256]

\* HidUsage::to_hid_usage: (modifiers << 24) | (page << 16) | id
HidUsage_to_hid_usage(u) == <<BitOr(u.modifiers * 256, u.page), u.id>>

\* the encoded usages decoded: pages 0, 7, 12 and 255 with and without
\* modifiers, and ids over the 16 bits
UsageHighHalves == {0, 7, 12, 255, 256, 263, 519, 32768, 32775, 65280, 65292, 65535}
UsageLowHalves == {0, 4, 224, 255, 256, 32768, 65535}

HidInit ==
    /\ usageIn \in UsageHighHalves \X UsageLowHalves
    /\ usageOut = <<>>
    /\ ClientInit
    /\ FramingStart
    /\ KeymapIdle
    /\ NamesIdle
    /\ BleIdle
    /\ EngineIdle
    /\ LateIdle
    /\ TypedIdle

\* HidUsage::from_encoded(e).to_hid_usage()
DecodeUsage ==
    /\ usageOut = <<>>
    /\ usageOut' = HidUsage_to_hid_usage(from_encoded(usageIn))
    /\ UNCHANGED usageIn
    /\ UNCHANGED <<framingVars, clientVars, keymapVars, namesVars, bleVars, engineVars, lateVars,
                   typedVars>>

HidNext == DecodeUsage

SpecHid == HidInit /\ [][HidNext]_vars

----------------------------------------------------------------------------
(* Properties of the frame codec *)

\* the number of leading frames of fs whose encodings lie within the first n bytes
RECURSIVE FramesWithin(_, _)
FramesWithin(fs, n) ==
    IF fs = <<>> THEN 0
    ELSE LET l == Len(encode_frame(Head(fs)))
         IN IF l <= n THEN 1 + FramesWithin(Tail(fs), n - l) ELSE 0

\* the number of reserved bytes among the first i bytes of p
ReservedUpTo(p, i) == Cardinality({j \in 1..i : p[j] \in {171, 172, 173}})

\* C1: pushing encode_frame(p) as one chunk into a fresh FrameDecoder returns
\* exactly one frame, equal to p, and leaves the decoder Idle with an empty
\* buffer, for every payload p (the empty one and those holding reserved bytes
\* included).
C1_RoundTrip ==
    \A p \in CodecPayloads :
        (lastPush.calls = 1 /\ lastPush.before = NewDecoder
            /\ lastPush.chunk = encode_frame(p))
        => /\ lastPush.result = PushOk(<<p>>)
           /\ decoder.state = "Idle"
           /\ decoder.data = <<>>

\* C1 witness: the payload of the three reserved bytes went through in one push
C1_Witness ==
    /\ lastPush.calls = 1
    /\ payload = <<171, 172, 173>>
    /\ lastPush.chunk = encode_frame(payload)
    /\ lastPush.result = PushOk(<<payload>>)

\* C2: when the peer has written only encoded frames, the frames returned by
\* the push calls so far, concatenated, are exactly the payloads whose
\* encodings have been consumed in full, in the order written, whatever the
\* chunk boundaries; no push fails, and once the wire is drained every payload
\* has been returned.
C2_ChunkingInvariance ==
    rawCount = 0 =>
        /\ lastPush.result.ok
        /\ delivered = SubSeq(sentFrames, 1,
                              FramesWithin(sentFrames, wireTotal - Len(wire)))
        /\ (wire = <<>> => delivered = sentFrames /\ decoder = NewDecoder)

\* C2 witness: two frames came out of a run in which a chunk boundary fell
\* between an escape byte and the byte it quotes
C2_Witness ==
    /\ rawCount = 0
    /\ Len(sentFrames) = 2
    /\ wire = <<>>
    /\ delivered = sentFrames
    /\ lastPush.before.state = "Escaped"
    /\ lastPush.calls = 2

\* C8: a push that returns ExpectedStartOfFrame or
\* UnexpectedStartOfFrameMidFrame leaves the decoder Idle with an empty
\* buffer, and the push call after a failed one, given the encoding of a
\* frame, returns exactly that frame's payload.
C8_ErrorRecovery ==
    /\ lastPush.result.err \in {"ExpectedStartOfFrame", "UnexpectedStartOfFrameMidFrame"}
        => decoder.state = "Idle" /\ decoder.data = <<>>
    /\ \A p \in Payloads :
        (prevErr # "none" /\ lastPush.chunk = encode_frame(p))
        => lastPush.result = PushOk(<<p>>)

\* C8 witness: a frame decoded by the push after one that failed mid-frame
C8_Witness ==
    /\ prevErr = "UnexpectedStartOfFrameMidFrame"
    /\ lastPush.chunk = encode_frame(<<1>>)
    /\ lastPush.result = PushOk(<<<<1>>>>)

\* C9 as stated: a framing error loses only the frame in progress. With stray
\* bytes that never start a frame (none is the start byte) and only whole
\* encoded frames besides, no frame is in progress when a stray byte arrives,
\* so every payload written has been returned once the wire is drained.
C9_OnlyFrameInProgressLost ==
    (FRAMING_SOF \notin rawKinds /\ wire = <<>>) => delivered = sentFrames

\* C10: encode_frame(p) is 0xAB, then each byte of p in order, preceded by 0xAC
\* when it is one of 0xAB, 0xAC, 0xAD, then 0xAD; its length is
\* len(p) + 2 + the number of reserved bytes of p.
C10_EncodeFrameLayout ==
    /\ encode_frame(<<1, 171, 172, 2, 3, 171, 4, 173, 5>>)
         = <<171, 1, 172, 171, 172, 172, 2, 3, 172, 171, 4, 172, 173, 5, 173>>
    /\ encode_frame(<<1, 2, 3>>) = <<171, 1, 2, 3, 173>>
    /\ encoded # <<>> =>
        /\ Len(encoded) = Len(payload) + 2 + ReservedUpTo(payload, Len(payload))
        /\ encoded[1] = 171
        /\ encoded[Len(encoded)] = 173
        /\ \A i \in 1..Len(payload) :
              LET pos == 1 + i + ReservedUpTo(payload, i)
              IN /\ encoded[pos] = payload[i]
                 /\ payload[i] \in {171, 172, 173} => encoded[pos - 1] = 172

\* C10 witness: the encoding of a payload that holds every reserved byte
C10_Witness ==
    /\ payload = <<173, 171, 172>>
    /\ encoded = <<171, 172, 173, 172, 171, 172, 172, 173>>

----------------------------------------------------------------------------
(* Properties of the RPC client engine *)

\* C3 as stated: a call whose reads gave it notifications and then the
\* RequestResponse with its own id returns that RequestResponse, and the
\* notifications come out of next_notification in arrival order.
C3_ReturnsMatchingResponse ==
    (pc = "idle" /\ lastResult.op = "call"
        /\ lastSeen.type = "RequestResponse" /\ lastSeen.request_id = request_id)
    => /\ lastResult = Ok("call", lastSeen)
       /\ handed \o notifications = notifLog

\* C3 amended: a call whose reads gave it notifications and then the
\* RequestResponse with its own id returns that RequestResponse when it carries
\* no meta result, and the error the meta result stands for when it carries
\* one; either way the notifications handed out and still queued are the ones
\* read, in arrival order.
C3_Correlation ==
    (pc = "idle" /\ lastResult.op = "call"
        /\ lastSeen.type = "RequestResponse" /\ lastSeen.request_id = request_id)
    => /\ lastSeen.subsystem \in {"core", "behaviors", "keymap", "none"}
            => lastResult = Ok("call", lastSeen)
       /\ lastSeen.subsystem = "meta_no_response"
            => lastResult = Err("call", "NoResponse")
       /\ lastSeen.subsystem \notin {"core", "behaviors", "keymap", "none"}
            => ~lastResult.ok
       /\ handed \o notifications = notifLog

\* C3 witness: the second call returned its response after two notifications,
\* of which the caller has taken the first
C3_Witness ==
    /\ pc = "idle"
    /\ request_id = <<0, 1>>
    /\ lastResult = Ok("call", RequestResponse(<<0, 1>>, "keymap"))
    /\ Len(notifLog) = 2
    /\ handed = <<notifLog[1]>>
    /\ notifications = <<notifLog[2]>>

\* C4: call never returns success with a RequestResponse of another id: while
\* a call runs it has read notifications only, and the RequestResponse that
\* ends it, when its id differs from the one sent, gives
\* UnexpectedRequestId { expected: the id sent, actual: the id received }.
C4_MismatchedIdFails ==
    /\ (lastResult.op = "call" /\ lastResult.ok)
        => /\ lastResult.value.type = "RequestResponse"
           /\ lastResult.value.request_id = request_id
    /\ pc = "call" => lastSeen.type \in {"nothing", "Notification"}
    /\ (pc = "idle" /\ lastResult.op = "call"
            /\ lastSeen.type = "RequestResponse" /\ lastSeen.request_id # request_id)
        => /\ lastResult.err = "UnexpectedRequestId"
           /\ lastResult.expected = request_id
           /\ lastResult.actual = lastSeen.request_id

\* C4 witness: the call with id 1 read a notification and then a response
\* with id 2
C4_Witness ==
    /\ pc = "idle"
    /\ request_id = <<0, 1>>
    /\ lastResult = UnexpectedRequestId(<<0, 1>>, <<0, 2>>)
    /\ notifLog # <<>>
    /\ notifications = notifLog

\* C5 as stated: read_notification_blocking reads until a Notification arrives
\* and then returns it, so it is never still running after a read gave it a
\* Notification.
C5_ReturnsNotificationRead ==
    pc = "rnb" => rnbLast.type # "Notification"

\* C6 as stated: a RequestResponse that read_notification_blocking has read is
\* kept in the client's queue of responses for the next call.
C6_ResponsePreserved ==
    rnbLast.type = "RequestResponse"
    => \E i \in 1..Len(responses) : responses[i] = rnbLast

\* C7: every Notification read_next_response has given a call, whether the
\* call went on, returned a result or returned an error, is in the notification
\* queue or has been handed to the caller, and the two together keep the
\* arrival order.
C7_NotificationsQueued ==
    handed \o notifications = notifLog

\* C7 witness: a call failed on a mismatched id after two notifications, and
\* both are queued in order
C7_Witness ==
    /\ pc = "idle"
    /\ lastResult.err = "UnexpectedRequestId"
    /\ Len(notifLog) = 2
    /\ notifications = notifLog
    /\ handed = <<>>

\* C11: the n-th call made on a client sends request_id = (n - 1) mod 2^32,
\* whether or not earlier calls succeeded or their write failed: the id of the
\* latest call is the count of the calls made before it reduced modulo 2^32,
\* the counter holds the count of all calls made reduced modulo 2^32 (so it
\* goes from 2^32 - 1 to 0), and the Request frame written last carries the
\* id of the latest call.
C11_RequestIdIsCallCount ==
    /\ next_request_id = CountAsU32(callsMade)
    /\ ops > 0 => request_id = CountAsU32(CountPred(callsMade))
    /\ pc = "call" => written[Len(written)] = request_id

\* C11 witness: after a call whose write failed with id 2^32 - 1, the next call
\* has sent id 0
C11_Witness ==
    /\ callsMade = <<U16, 1>>
    /\ pc = "call"
    /\ request_id = <<0, 0>>
    /\ written = <<<<0, 0>>>>
    /\ next_request_id = <<0, 1>>

\* C12: a RequestResponse with the id sent that carries a meta result is never
\* returned as success: NoResponse(true) gives ClientError::NoResponse,
\* SimpleError with a code of ErrorConditions gives ClientError::Meta(code),
\* SimpleError with another code gives UnknownEnumValue with that value, and
\* any other meta content gives MissingResponseType.
C12_MetaResultIsError ==
    (pc = "idle" /\ lastResult.op = "call" /\ lastSeen.type = "RequestResponse"
        /\ lastSeen.request_id = request_id /\ IsMeta(lastSeen.subsystem))
    => /\ ~lastResult.ok
       /\ lastSeen.subsystem = "meta_no_response"
            => lastResult = Err("call", "NoResponse")
       /\ (lastSeen.subsystem = "meta_simple_error" /\ lastSeen.n \in ErrorConditions)
            => lastResult = Meta(lastSeen.n)
       /\ (lastSeen.subsystem = "meta_simple_error" /\ lastSeen.n \notin ErrorConditions)
            => lastResult = UnknownEnumValue("meta.simple_error", lastSeen.n)
       /\ lastSeen.subsystem \in {"meta_no_response_false", "meta_empty"}
            => lastResult = Err("call", "MissingResponseType")

\* C12 witness: a call got SimpleError(5), which is no ErrorConditions value,
\* after a notification
C12_Witness ==
    /\ pc = "idle"
    /\ lastSeen = SimpleError(request_id, 5)
    /\ lastResult = UnknownEnumValue("meta.simple_error", 5)
    /\ notifLog # <<>>

----------------------------------------------------------------------------
(* C13..C19: the behavior catalog, get_key_at and set_key_at *)

\* C13: over any sequence of get_key_at and set_key_at calls the catalog is
\* fetched (list_all_behaviors, then get_behavior_details for every id) at most
\* once.
C13_CatalogFetchedOnce == buildsCompleted <= 1

\* the write request of the last operation, if it ended with one
C14_Wrote(layer_id, key_position, binding) ==
    /\ rpcLog # <<>>
    /\ rpcLog[Len(rpcLog)] = SetLayerBinding(layer_id, key_position, binding)
    /\ \A i \in 1..(Len(rpcLog) - 1) : rpcLog[i].rpc # "set_layer_binding"

\* C14: raw -> typed -> raw is lossless: writing back to an address what
\* get_key_at has just returned for it sends a layer-binding write whose
\* binding equals the stored one in behavior id, param1 and param2.
C14_RawTypedRawLossless ==
    (/\ kmResult.op = "set_key_at"
     /\ prevResult.op = "get_key_at"
     /\ prevResult.ok
     /\ kmResult.layer_id = prevResult.layer_id
     /\ kmResult.key_position = prevResult.key_position
     /\ kmResult.arg = prevResult.behavior
     /\ kmResult.err # CallFailed)
        => C14_Wrote(kmResult.layer_id, kmResult.key_position, prevResult.stored)

\* C15: typed -> raw -> typed: decoding, as get_key_at does, the binding that
\* set_key_at builds for a typed behavior gives back that behavior, whatever
\* key it carries.
C15_TypedRawTypedEqual ==
    (/\ kmResult.op = "set_key_at"
     /\ kmResult.arg.variant # "Raw"
     /\ kmResult.arg.variant \in DOMAIN behavior_id_by_role
     /\ rpcLog # <<>>
     /\ rpcLog[Len(rpcLog)].rpc = "set_layer_binding")
        => decode_binding(behavior_role_by_id, rpcLog[Len(rpcLog)].binding)
              = kmResult.arg

\* the binding the claim expects for a typed behavior under behavior id i: the
\* operands in their parameter slots and 0 in every unused slot
C16_Expected(i, v) ==
    CASE v.variant \in OneKeyRoles -> [behavior_id |-> i, param1 |-> to_hid_usage(v.key1), param2 |-> <<0, 0>>]
      [] v.variant = "LayerTap" -> [behavior_id |-> i, param1 |-> v.p1, param2 |-> to_hid_usage(v.key1)]
      [] v.variant = "ModTap" -> [behavior_id |-> i, param1 |-> to_hid_usage(v.key1), param2 |-> to_hid_usage(v.key2)]
      [] v.variant \in OneParamRoles -> [behavior_id |-> i, param1 |-> v.p1, param2 |-> <<0, 0>>]
      [] v.variant \in TwoParamRoles -> [behavior_id |-> i, param1 |-> v.p1, param2 |-> v.p2]
      [] OTHER -> [behavior_id |-> i, param1 |-> <<0, 0>>, param2 |-> <<0, 0>>]

\* the binding sent has the behavior id i (a u32 of the catalog)
C16_HasId(binding, i) ==
    /\ binding.behavior_id >= 0
    /\ U32FromNat(binding.behavior_id) = i

\* C16: with a catalog in which id i has the display name of role R,
\* set_key_at(layer, pos, V) for a V of role R sends exactly one layer-binding
\* write for (layer, pos), with behavior_id = i, the operands of V in their
\* slots and 0 in every unused slot.
C16_WritesCatalogId ==
    \A n \in 1..Len(fwBehaviors) :
        (/\ kmResult.op = "set_key_at"
         /\ kmResult.arg.variant # "Raw"
         /\ fwBehaviors[n].name = DisplayNameOf(kmResult.arg.variant)
         /\ kmResult.err # CallFailed)
            => /\ rpcLog # <<>>
               /\ C16_HasId(rpcLog[Len(rpcLog)].binding, fwBehaviors[n].id)
               /\ C14_Wrote(kmResult.layer_id, kmResult.key_position,
                            C16_Expected(rpcLog[Len(rpcLog)].binding.behavior_id,
                                         kmResult.arg))

\* the behavior id of a binding has no entry in the role table
C17_NoRole(binding) ==
    \/ binding.behavior_id < 0
    \/ /\ binding.behavior_id >= 0
       /\ U32FromNat(binding.behavior_id) \notin DOMAIN behavior_role_by_id

C18_Addressable(layer_id, key_position) ==
    \E i \in 1..Len(fwKeymap) :
        /\ fwKeymap[i].id = layer_id
        /\ key_position >= 0
        /\ key_position < Len(fwKeymap[i].bindings)

\* C18: get_key_at returns InvalidLayerOrPosition for the address it was given
\* whenever the keymap has no layer of that id, or the position is negative,
\* or the position is at or beyond the number of bindings of the layer; for
\* every other address it returns the binding's behavior.
C18_InvalidAddressIsError ==
    (kmResult.op = "get_key_at" /\ kmResult.err # CallFailed)
        => IF C18_Addressable(kmResult.layer_id, kmResult.key_position)
           THEN kmResult.ok
           ELSE ~kmResult.ok /\ kmResult.err = "InvalidLayerOrPosition"

C18_Witness ==
    /\ kmResult.op = "get_key_at"
    /\ kmResult.layer_id = 5
    /\ kmResult.key_position = 3
    /\ kmResult.err = "InvalidLayerOrPosition"
    /\ prevResult.op = "get_key_at"
    /\ prevResult.layer_id = 5
    /\ prevResult.key_position = 2
    /\ prevResult.ok

\* C19: set_key_at of a typed behavior whose role has no id in the catalog
\* returns MissingBehaviorRole, and of one whose id is above 2^31 - 1 returns
\* BehaviorIdOutOfRange with that id; neither sends a layer-binding write.
C19_NoIdNoWrite ==
    (/\ kmResult.op = "set_key_at"
     /\ kmResult.arg.variant # "Raw"
     /\ kmResult.err # CallFailed)
        => /\ kmResult.arg.variant \notin DOMAIN behavior_id_by_role
                => /\ kmResult.err = "MissingBehaviorRole"
                   /\ \A i \in 1..Len(rpcLog) : rpcLog[i].rpc # "set_layer_binding"
           /\ (/\ kmResult.arg.variant \in DOMAIN behavior_id_by_role
               /\ behavior_id_by_role[kmResult.arg.variant][1] >= 32768)
                => /\ kmResult.err = "BehaviorIdOutOfRange"
                   /\ kmResult.u32 = behavior_id_by_role[kmResult.arg.variant]
                   /\ \A i \in 1..Len(rpcLog) : rpcLog[i].rpc # "set_layer_binding"

C19_Witness ==
    /\ kmResult.op = "set_key_at"
    /\ kmResult.arg = ModTap(Keyboard(Modifier("LeftControl")), Keyboard(UsageId(4)))
    /\ kmResult.err = "BehaviorIdOutOfRange"
    /\ kmResult.u32 = <<32768, 1>>
    /\ rpcLog = <<>>
    /\ prevResult.op = "set_key_at"
    /\ prevResult.err = "MissingBehaviorRole"
    /\ fwKeymap = Keymap

----------------------------------------------------------------------------
(* C20: display names in normalised form *)

\* the normalised form of a display name: the case folded, '-', '/' and white
\* space read as a space, runs of spaces as one, no space at either end
C20_Fold(name) ==
    LET n == to_ascii_lowercase(name)
    IN [i \in 1..Len(n) |-> IF n[i] \in {"-", "/"} \cup WhiteSpace THEN " " ELSE n[i]]

RECURSIVE C20_Collapse(_)
C20_Collapse(name) ==
    IF Len(name) < 2 THEN name
    ELSE IF name[1] = " " /\ name[2] = " " THEN C20_Collapse(Tail(name))
    ELSE <<name[1]>> \o C20_Collapse(Tail(name))

C20_NormalForm(name) == trim(C20_Collapse(C20_Fold(name)))

\* C20: two display names with the same normalised form are recognised as the
\* same role ("Layer-Tap" as "layer tap", "Grave/Escape" as "grave escape",
\* "Key  Press" as "key press").
C20_SameFormSameRole ==
    (roles # Unclassified /\ C20_NormalForm(names[1]) = C20_NormalForm(names[2]))
        => roles[1] = roles[2]

----------------------------------------------------------------------------
(* C21 *)

C21_Count(log, rpc) == Cardinality({i \in 1..Len(log) : log[i].rpc = rpc})

\* C21: set_key_at changes only the device's working keymap: besides the
\* catalog queries it sends one set_layer_binding request (none when the
\* catalog or the encoding failed) and no save_changes or discard_changes
\* request, so what the device has persisted stays as it was; the persisted
\* keymap changes only in a save_changes call that succeeds
C21_SetKeyAtPersistsNothing ==
    [][/\ (kmOps' # kmOps /\ kmResult'.op = "set_key_at") =>
            /\ fwSaved' = fwSaved
            /\ \A i \in 1..Len(rpcLog') :
                  rpcLog'[i].rpc \in {"list_all_behaviors", "get_behavior_details",
                                     "set_layer_binding"}
            /\ C21_Count(rpcLog', "set_layer_binding") <= 1
            /\ (kmResult'.ok \/ kmResult'.err = "SetLayerBindingFailed") =>
                  /\ C21_Count(rpcLog', "set_layer_binding") = 1
                  /\ rpcLog'[Len(rpcLog')].rpc = "set_layer_binding"
       /\ fwSaved' # fwSaved => kmResult'.op = "save_changes" /\ kmResult'.ok
      ]_vars

\* a first set_key_at has fetched the catalog and changed the working keymap,
\* which now differs from the persisted one
C21_Witness ==
    /\ kmResult.op = "set_key_at"
    /\ kmResult.ok
    /\ Len(rpcLog) > 1
    /\ rpcLog[1].rpc = "list_all_behaviors"
    /\ fwKeymap # fwSaved

----------------------------------------------------------------------------
(* C22, C23, C24, C30: the BLE transport bridge *)

IsPrefix(s, t) == Len(s) <= Len(t) /\ SubSeq(t, 1, Len(s)) = s

\* C22: the bytes the reads of a BleTransport have returned, concatenated,
\* are a prefix of the bytes of the packets the worker has put on the inbound
\* channel, in order; what is left of them is, in order, the leftover queue
\* and the packets still on the channel: no byte is lost, repeated or moved
C22_BytesInOrder ==
    /\ IsPrefix(gotBytes, putBytes)
    /\ gotBytes \o read_queue \o Flatten(inbound) = putBytes

\* reads with buffers smaller and larger than the packets have returned the
\* first packet and part of the second, and a third packet waits
C22_Witness ==
    /\ Len(gotBytes) >= 4
    /\ read_queue # <<>>
    /\ inbound # <<>>
    /\ lastBle.op = "read"

C23_Reported ==
    /\ Len(setupSent) <= 1
    /\ connectResult = "Ok" => setupSent = <<"Ok">>
    /\ connectResult = "SetupChannelClosed" => setupSent = <<>> /\ worker = "done"
    /\ connectResult \notin {"pending", "Ok", "SetupChannelClosed"} =>
          setupSent = <<connectResult>> /\ worker = "done"
    /\ held /\ connectResult # "pending" => connectResult = "Ok"

\* C23: connect_with_options returns a transport only if the worker has
\* reported a successful handshake on the setup channel; it returns the error
\* the worker reported, or SetupChannelClosed if the worker ended without a
\* report; the worker sends at most one result; and once the worker has
\* reported or ended, connect_with_options does return
C23_ConnectFollowsHandshake ==
    /\ []C23_Reported
    /\ (setupSent # <<>> \/ worker = "done") ~> (connectResult # "pending")

\* the worker ended without a report and connect_with_options returned
\* SetupChannelClosed
C23_Witness ==
    /\ connectResult = "SetupChannelClosed"
    /\ worker = "done"
    /\ ~held

\* C24: the caller learns that the worker is gone only from the channels:
\* BrokenPipe and UnexpectedEof are returned only once the worker has
\* returned; from then on every write fails with BrokenPipe, and a read (of a
\* buffer that is not empty) returns Ok with bytes already buffered while the
\* leftover queue or the inbound channel holds any, and UnexpectedEof after
\* that. Until then a write returns the length of the buffer and leaves it
\* on the outbound channel, not yet transmitted
C24_WorkerEndSeenByClosure ==
    [][bleOps' # bleOps =>
        /\ lastBle'.res \in {"BrokenPipe", "UnexpectedEof"} => worker = "done"
        /\ lastBle'.op = "write" =>
              IF worker = "done"
              THEN lastBle'.res = "BrokenPipe" /\ outbound' = outbound
              ELSE /\ lastBle'.res = "Ok"
                   /\ Len(lastBle'.bytes) = lastBle'.n
                   /\ outbound' = Append(outbound, lastBle'.bytes)
                   /\ transmitted' = transmitted
        /\ (lastBle'.op = "read" /\ lastBle'.n > 0 /\ worker = "done") =>
              IF read_queue # <<>> \/ inbound # <<>>
              THEN /\ lastBle'.res = "Ok"
                   /\ IsPrefix(lastBle'.bytes, read_queue \o Flatten(inbound))
                   /\ read_queue' \o Flatten(inbound')
                        = SubSeq(read_queue \o Flatten(inbound),
                                 Len(lastBle'.bytes) + 1,
                                 Len(read_queue \o Flatten(inbound)))
              ELSE lastBle'.res = "UnexpectedEof"
      ]_vars

\* a transmission has failed, a packet is still buffered, and the write after
\* that has failed with BrokenPipe
C24_Witness ==
    /\ worker = "done"
    /\ transmitted = 0
    /\ lastBle.op = "write"
    /\ lastBle.res = "BrokenPipe"
    /\ inbound # <<>>

C30_Take(q, n) == SubSeq(q, 1, Min(n, Len(q)))
C30_Rest(q, n) == SubSeq(q, Min(n, Len(q)) + 1, Len(q))

\* C30: a read into a buffer of n > 0 bytes takes the first n bytes of the
\* leftover queue, if it holds any, and leaves the inbound channel alone;
\* with an empty queue it takes one packet from the channel, returns its
\* first n bytes and keeps the rest in the queue; with none on the channel it
\* returns TimedOut while the sender exists and UnexpectedEof when it is
\* gone, and leaves queue and channels as they were. A read into an empty
\* buffer returns Ok(0) and touches nothing
C30_ReadQueueThenChannel ==
    [][(bleOps' # bleOps /\ lastBle'.op = "read") =>
        /\ Len(lastBle'.bytes) <= lastBle'.n
        /\ IF lastBle'.n = 0
           THEN /\ lastBle'.res = "Ok"
                /\ UNCHANGED <<read_queue, inbound>>
           ELSE IF read_queue # <<>>
           THEN /\ lastBle'.res = "Ok"
                /\ lastBle'.bytes = C30_Take(read_queue, lastBle'.n)
                /\ read_queue' = C30_Rest(read_queue, lastBle'.n)
                /\ inbound' = inbound
           ELSE IF inbound # <<>>
           THEN /\ lastBle'.res = "Ok"
                /\ lastBle'.bytes = C30_Take(Head(inbound), lastBle'.n)
                /\ read_queue' = C30_Rest(Head(inbound), lastBle'.n)
                /\ inbound' = Tail(inbound)
           ELSE /\ lastBle'.res = IF worker = "done" THEN "UnexpectedEof" ELSE "TimedOut"
                /\ lastBle'.bytes = <<>>
                /\ UNCHANGED <<read_queue, inbound, outbound, held, worker>>
      ]_vars

\* a read has timed out, and a later read has returned part of a packet and
\* kept the rest
C30_Witness ==
    /\ timeouts > 0
    /\ lastBle.op = "read"
    /\ lastBle.res = "Ok"
    /\ lastBle.bytes # <<>>
    /\ read_queue # <<>>

----------------------------------------------------------------------------
(* C25, C26, C29: the client engine, call by call *)

C26_Turn == pc = "call" /\ sent' = sent

\* the chunk io.read gave in the turn
C26_Chunk == SubSeq(wire, 1, lastRnr'.n)

\* C26: a call writes one Request frame, when it is entered, and no step
\* writes another; a write that fails, a read that fails (timeout), a read of
\* zero bytes, a chunk that fails in the frame decoder or in the decoding of a
\* Response, an error returned by read_next_response and a response that is
\* not the call's own result end the call in that step with the error; while
\* a call goes on it has met no error
C26_OneFrameNoRetry ==
    /\ [](pc = "call" => lastResult = NoResult)
    /\ [](Len(written) <= ops)
    /\ [][/\ written' # written => pc = "idle" /\ pc' = "call"
          /\ (pc = "idle" /\ pc' = "call") => written' = Append(written, next_request_id)
          /\ (pc = "idle" /\ ops' # ops /\ pc' = "idle") =>
                lastResult' = Err("call", "Io(WriteFailed)") /\ wire' = wire
          /\ C26_Turn =>
                /\ written' = written
                /\ lastRnr'.status = "err" =>
                      pc' = "idle" /\ lastResult' = Err("call", lastRnr'.err)
                /\ (lastRnr'.read /\ lastRnr'.kind = "err") =>
                      pc' = "idle" /\ lastResult' = Err("call", "Io(TimedOut)")
                /\ (lastRnr'.read /\ lastRnr'.kind = "data" /\ lastRnr'.n = 0) =>
                      pc' = "idle" /\ lastResult' = Err("call", "Io(UnexpectedEof)")
                /\ (lastRnr'.read /\ lastRnr'.n > 0
                        /\ ~decode_responses(decoder, C26_Chunk).ok) =>
                      /\ pc' = "idle"
                      /\ lastResult'
                           = Err("call", decode_responses(decoder, C26_Chunk).err)
                /\ (lastRnr'.status = "ok" /\ lastRnr'.response.type # "Notification"
                        /\ lastRnr'.response # RequestResponse(request_id, "keymap")) =>
                      pc' = "idle" /\ ~lastResult'.ok
         ]_vars

\* two calls have written one frame each, and the second has ended with the
\* timeout of its read
C26_Witness ==
    /\ pc = "idle"
    /\ Len(written) = 2
    /\ ops = 2
    /\ lastRnr.kind = "err"
    /\ lastResult = Err("call", "Io(TimedOut)")

\* C29: read_next_response calls io.read exactly when the queue of decoded
\* responses is empty; with a queue that is not empty it returns its head,
\* keeps its tail and leaves transport and decoder alone; a read that gives
\* zero bytes makes it fail with Io(UnexpectedEof) at once; and after a read
\* it returns the first response the chunk completed and queues the others in
\* the order of their frames
C29_ReadOnlyWhenQueueEmpty ==
    [][C26_Turn =>
        /\ lastRnr'.read <=> responses = <<>>
        /\ ~lastRnr'.read =>
              /\ wire' = wire
              /\ decoder' = decoder
              /\ lastRnr'.status = "ok"
              /\ lastRnr'.response = Head(responses)
              /\ responses' = Tail(responses)
        /\ (lastRnr'.read /\ lastRnr'.kind = "data" /\ lastRnr'.n = 0) =>
              /\ lastRnr'.status = "err"
              /\ lastRnr'.err = "Io(UnexpectedEof)"
              /\ pc' = "idle"
              /\ lastResult' = Err("call", "Io(UnexpectedEof)")
              /\ UNCHANGED <<responses, decoder, wire>>
        /\ (lastRnr'.read /\ lastRnr'.status = "ok") =>
              <<lastRnr'.response>> \o responses'
                 = decode_responses(decoder, C26_Chunk).responses
      ]_vars

\* one read gave the frames of a notification and of the response; the
\* notification was returned first, and the response came from the queue
\* without a read
C29_Witness ==
    /\ ~lastRnr.read
    /\ lastRnr.status = "ok"
    /\ lastRnr.response.type = "RequestResponse"
    /\ notifications # <<>>
    /\ lastResult.ok

----------------------------------------------------------------------------
(* C27 *)

\* C27: when call has returned, the typed call of a subsystem returns the
\* RequestResponse if it carries a result of that subsystem and only then;
\* UnexpectedSubsystem naming that subsystem if it carries a result of one of
\* the other two; MissingSubsystem if it carries none; and the error of call
\* if call failed
C27_TypedCallChecksSubsystem ==
    (pc = "idle" /\ lastResult.op = "call" /\ wanted \in TypedSubsystems) =>
        /\ typedResult.ok <=> (lastResult.ok /\ lastResult.value.subsystem = wanted)
        /\ typedResult.ok => typedResult.value = lastResult.value
        /\ ~lastResult.ok => typedResult = lastResult
        /\ (lastResult.ok /\ lastResult.value.subsystem = "none") =>
              typedResult = Err("call", "MissingSubsystem")
        /\ (lastResult.ok /\ lastResult.value.subsystem \in TypedSubsystems \ {wanted}) =>
              typedResult = UnexpectedSubsystem(wanted)

\* call_behaviors was answered with a keymap result
C27_Witness ==
    /\ pc = "idle"
    /\ wanted = "behaviors"
    /\ lastResult.ok
    /\ lastResult.value.subsystem = "keymap"
    /\ typedResult = UnexpectedSubsystem("behaviors")

----------------------------------------------------------------------------
(* C28 *)

\* what the claim says of each mutation: the response type it expects, the
\* enumeration of its codes, the error it fails with and the field it names
C28_Type ==
    [set_layer_binding |-> "SetLayerBinding", save_changes |-> "SaveChanges",
     set_active_physical_layout |-> "SetActivePhysicalLayout", move_layer |-> "MoveLayer",
     add_layer |-> "AddLayer", remove_layer |-> "RemoveLayer",
     restore_layer |-> "RestoreLayer", set_layer_props |-> "SetLayerProps"]
C28_Codes ==
    [set_layer_binding |-> KeymapEnums.SetLayerBindingResponse, save_changes |-> KeymapEnums.SaveChangesErrorCode,
     set_active_physical_layout |-> KeymapEnums.SetActivePhysicalLayoutErrorCode,
     move_layer |-> KeymapEnums.MoveLayerErrorCode, add_layer |-> KeymapEnums.AddLayerErrorCode,
     remove_layer |-> KeymapEnums.RemoveLayerErrorCode, restore_layer |-> KeymapEnums.RestoreLayerErrorCode,
     set_layer_props |-> KeymapEnums.SetLayerPropsResponse]
C28_Failed ==
    [set_layer_binding |-> "SetLayerBindingFailed", save_changes |-> "SaveChangesFailed",
     set_active_physical_layout |-> "SetActivePhysicalLayoutFailed",
     move_layer |-> "MoveLayerFailed", add_layer |-> "AddLayerFailed",
     remove_layer |-> "RemoveLayerFailed", restore_layer |-> "RestoreLayerFailed",
     set_layer_props |-> "SetLayerPropsFailed"]
C28_Field ==
    [set_layer_binding |-> "keymap.set_layer_binding", save_changes |-> "keymap.save_changes",
     set_active_physical_layout |-> "keymap.set_active_physical_layout",
     move_layer |-> "keymap.move_layer", add_layer |-> "keymap.add_layer",
     remove_layer |-> "keymap.remove_layer", restore_layer |-> "keymap.restore_layer",
     set_layer_props |-> "keymap.set_layer_props"]

\* C28: a keymap mutation returns Ok exactly when the Response is of its
\* type and carries the OK code (set_layer_binding, set_layer_props) or the
\* Ok arm (the others); for a code of its enumeration that is not a success
\* it returns its own ..Failed error with that code; for a code outside the
\* enumeration UnknownEnumValue with its field name and the raw value; and
\* MissingResponseType when the result or the response of its type is absent
C28_MutationResults ==
    mutResult # NoResult =>
        LET op == mutation.op
            r == mutation.resp
            own == r.type = C28_Type[op]
            byCode == op \in {"set_layer_binding", "set_layer_props"}
            success == own /\ (IF byCode THEN r.code = 0 ELSE r.arm = "ok")
            coded == own /\ (byCode \/ r.arm = "err")
        IN /\ mutResult.ok <=> success
           /\ (coded /\ ~success /\ r.code \in C28_Codes[op]) =>
                 mutResult = Failed(C28_Failed[op], r.code)
           /\ (coded /\ r.code \notin C28_Codes[op]) =>
                 mutResult = UnknownEnumValue(C28_Field[op], r.code)
           /\ (~own \/ (~byCode /\ r.arm = "none")) =>
                 mutResult = Err("call", "MissingResponseType")

\* remove_layer was answered with the Err arm and a code outside its
\* enumeration
C28_Witness ==
    /\ mutation.op = "remove_layer"
    /\ mutation.resp.type = "RemoveLayer"
    /\ mutation.resp.arm = "err"
    /\ mutation.resp.code = 9
    /\ mutResult = UnknownEnumValue("keymap.remove_layer", 9)

----------------------------------------------------------------------------
(* C31 *)

\* the id of the first behavior the device lists whose name has the role r
C31_FirstId(r) ==
    LET i == CHOOSE i \in 1..Len(fwBehaviors) :
                /\ role_from_display_name(fwBehaviors[i].name) = r
                /\ \A j \in 1..(i - 1) : role_from_display_name(fwBehaviors[j].name) # r
    IN fwBehaviors[i].id

\* C31: the id table maps a role to the first id, in the order of the
\* device's list, whose display name has that role, and the binding a
\* successful set_key_at of a typed behavior writes carries that id
C31_FirstIdKept ==
    /\ \A r \in DOMAIN behavior_id_by_role :
          /\ \E i \in 1..Len(fwBehaviors) : role_from_display_name(fwBehaviors[i].name) = r
          /\ behavior_id_by_role[r] = C31_FirstId(r)
    /\ (kmResult.op = "set_key_at" /\ kmResult.ok /\ kmResult.arg.variant # "Raw")
       => LET id == C31_FirstId(kmResult.arg.variant)
          IN kmResult.binding.behavior_id = id[1] * U16 + id[2]

\* the device lists two ids of the KeyPress role, both are in the role table,
\* and set_key_at has written a KeyPress with the first of them
C31_Witness ==
    /\ Cardinality({id \in DOMAIN behavior_role_by_id :
                      behavior_role_by_id[id] = "KeyPress"}) = 2
    /\ kmResult.op = "set_key_at"
    /\ kmResult.ok
    /\ kmResult.arg.variant = "KeyPress"
    /\ kmResult.binding.behavior_id = 3

----------------------------------------------------------------------------
(* C32 *)

\* C32: every encoded usage e decodes and encodes back to itself:
\* HidUsage::from_encoded(e).to_hid_usage() = e
C32_RoundTripLossless == usageOut # <<>> => usageOut = usageIn

----------------------------------------------------------------------------
(* C33 *)

\* the errors of the transport: a failed write, a read that timed out, a read
\* at the end of the stream
C33_IoErrors == {"Io(WriteFailed)", "Io(TimedOut)", "Io(UnexpectedEof)"}

\* C33: against a device that answers every request once and in order, a
\* call begun after an earlier call failed with a read timeout returns the
\* RequestResponse of its own id, unless the transport fails it in its turn:
\* the response of the timed-out request, arriving late, does not fail it
C33_TimeoutRecoverable ==
    (/\ pc = "idle"
     /\ lastResult.op = "call"
     /\ startedLate
     /\ lastResult.err \notin C33_IoErrors)
    => lastResult = Ok("call", RequestResponse(request_id, "keymap"))

----------------------------------------------------------------------------
(* C34 *)

\* the last operation failed in ensure_behavior_catalog: the call that failed
\* is list_all_behaviors or a get_behavior_details
C34_CatalogFailed ==
    /\ kmResult.op \in {"get_key_at", "set_key_at"}
    /\ ~kmResult.ok
    /\ kmResult.err = CallFailed
    /\ rpcLog # <<>>
    /\ rpcLog[Len(rpcLog)].rpc \in {"list_all_behaviors", "get_behavior_details"}

\* C34: when ensure_behavior_catalog returns an error, both role tables are
\* empty afterwards
C34_NoPartialCatalog ==
    C34_CatalogFailed => (behavior_role_by_id = <<>> /\ behavior_id_by_role = <<>>)

----------------------------------------------------------------------------
(* C35 *)

\* C35: whenever no operation of the client is in progress, the queue of
\* responses read ahead holds no Notification
C35_NoNotificationReadAhead ==
    pc = "idle" => \A i \in 1..Len(responses) : responses[i].type # "Notification"

----------------------------------------------------------------------------
(* C36 *)

\* C36: a read into a buffer that is not empty returns an error or at least
\* one byte, never Ok(0)
C36_ReadNeverOkZero ==
    (lastBle.op = "read" /\ lastBle.n > 0 /\ lastBle.res = "Ok") => lastBle.bytes # <<>>

----------------------------------------------------------------------------
(* C37 *)

\* the turn of call's loop in which read_next_response reads a chunk that
\* decode_responses rejects
C37_Rejected ==
    /\ C26_Turn
    /\ lastRnr'.read
    /\ lastRnr'.n > 0
    /\ lastRnr'.status = "err"
    /\ lastRnr'.err \in {"Protocol(Framing)", "Protocol(Decode)"}

\* the decoder after the bytes of the chunk up to the first byte that is a
\* framing error, or after all of them
C37_Advanced == push(decoder, lastRnr'.chunk).decoder

\* C37: when a frame completed by the chunk fails to decode, or a framing
\* error occurs in the chunk, the read returns the error, no response of the
\* chunk reaches the response queue or the notification queue, and the
\* decoder has advanced over the chunk all the same
C37_AllOrNothing ==
    [][C37_Rejected =>
          /\ lastResult' = Err("call", lastRnr'.err)
          /\ responses' = <<>>
          /\ notifications' = notifications
          /\ notifLog' = notifLog
          /\ decoder' = C37_Advanced
          /\ lastRnr'.err = "Protocol(Framing)" => decoder' = NewDecoder]_vars

\* a chunk that held the frame of a notification and, after it, a frame that
\* does not decode has been rejected, and the notification is in no queue
C37_Witness ==
    /\ lastRnr.chunk = encode_response(Notification(1)) \o encode_frame(<<9>>)
    /\ lastResult = Err("call", "Protocol(Decode)")
    /\ responses = <<>>
    /\ notifications = <<>>

----------------------------------------------------------------------------
(* C38 *)

\* the call has returned on a RequestResponse that carries a meta result and
\* the id of another request
C38_MetaOfOtherRequest ==
    /\ pc = "idle"
    /\ lastResult.op = "call"
    /\ lastSeen.type = "RequestResponse"
    /\ IsMeta(lastSeen.subsystem)
    /\ lastSeen.request_id # request_id

\* C38: a RequestResponse with a meta result (no response, or an error
\* condition) whose request id is not the one just sent makes call fail with
\* UnexpectedRequestId { expected, actual }, not with NoResponse or Meta
C38_IdCheckedBeforeMeta ==
    C38_MetaOfOtherRequest => lastResult = UnexpectedRequestId(request_id, lastSeen.request_id)

\* a call was answered with the error condition of another request
C38_Witness ==
    /\ C38_MetaOfOtherRequest
    /\ lastSeen.subsystem = "meta_simple_error"
    /\ lastResult.err = "UnexpectedRequestId"

----------------------------------------------------------------------------
(* C39 *)

\* C39: the two role tables agree: the id that behavior_id_by_role gives a
\* role has that role in behavior_role_by_id, and every role that
\* behavior_role_by_id gives an id has an id in behavior_id_by_role
C39_TablesConsistent ==
    /\ \A r \in DOMAIN behavior_id_by_role :
          /\ behavior_id_by_role[r] \in DOMAIN behavior_role_by_id
          /\ behavior_role_by_id[behavior_id_by_role[r]] = r
    /\ \A i \in DOMAIN behavior_role_by_id :
          behavior_role_by_id[i] \in DOMAIN behavior_id_by_role

\* two operations have run on a device that lists two ids of one role: the
\* role table has both ids, the id table the one role
C39_Witness ==
    /\ kmOps = 2
    /\ Cardinality(DOMAIN behavior_role_by_id) = 2
    /\ Cardinality(DOMAIN behavior_id_by_role) = 1

----------------------------------------------------------------------------
(* C40 *)

\* C40: once the caller has dropped the BleTransport while the worker is in
\* its loop, the worker eventually returns and has disconnected the
\* peripheral
C40_DropDisconnects ==
    (connectResult = "Ok" /\ ~held /\ worker = "running")
        ~> (worker = "done" /\ disconnected)

====
